---- MODULE Spec2Model ----
(***************************************************************************)
(* Shift registration bot (Telegraf + sqlite3 + Google Sheets).            *)
(*                                                                         *)
(* src/table.js holds three programs, one after the other:                 *)
(*   V1  lines    1- 930  Timesheet mirror, manual end, confirm, crons     *)
(*   V2  lines  934-1800  Sheet1 mirror, manual end, confirm/cancel, crons *)
(*   V3  lines 1804-2352  no mirror, confirm/cancel only                   *)
(* The variable `variant` says which of them is running.                   *)
(*                                                                         *)
(* Every handler is an async function: it is cut at its awaits, and the    *)
(* steps of different handlers interleave.  A clock time "HH:MM" is the    *)
(* pair <<HH, MM>>; two-digit strings compare as these pairs do.           *)
(***************************************************************************)
EXTENDS Integers, Sequences, FiniteSets, TLC

VARIABLES variant,    \* which program of src/table.js runs
          today,      \* what getCurrentDate returns now
          shifts,     \* table shifts: shifts[id] is the row with that id
          sheet,      \* rows of the Timesheet / Sheet1 worksheet, top down
          failLog,    \* rows of the shift_fail worksheet
          photo,      \* the photo handlers in flight
          conf,       \* the confirm_action handler in flight
          text,       \* the text handler in flight
          cron,       \* the 23:05 job in flight
          session,    \* ctx.session objects made by the select handler
          lastReply,  \* the last ctx.reply / answerCbQuery
          probe       \* a call of a helper function: its arguments and result

vars == <<variant, today, shifts, sheet, failLog, photo, conf, text, cron,
          session, lastReply, probe>>

----------------------------------------------------------------------------
(* Bounds and input sets *)

MaxShifts == 2
MaxInFlight == 2
MaxHandleLen == 2
MaxFails == 1
MaxRows == 4
MaxCalls == 2

Variants == {"V1", "V2", "V3"}
Groups   == {"g1", "g2"}
\* Telegram usernames, as sequences of characters
Admin    == <<"a", "d", "m">>
U1       == <<"u", "1">>
U2       == <<"u", "2">>
Actors   == {Admin, U1}
Dates    == <<"01.06", "02.06">>
Handlers == {"h1", "h2"}

T0700 == <<7, 0>>
T1345 == <<13, 45>>
T1400 == <<14, 0>>
T1500 == <<15, 0>>
T2300 == <<23, 0>>
T2500 == <<25, 0>>

\* the (start, end) tokens of the captions that are sent
CaptionTimes == { <<T0700, T1500>>, <<T1400, T2300>>, <<T1500, T2300>>,
                  <<T2300, T0700>>, <<T2500, T0700>> }
\* who sends photos: <<group, username>>
Senders == { <<"g1", U1>>, <<"g1", U2>>, <<"g2", U1>> }

\* SQL NULL / a cell that is not there, and the empty string of a cell
Nil   == <<>>
Blank == <<-1>>

----------------------------------------------------------------------------
(* Helpers of the programs *)

AdminUsernames(g) == {Admin}

\* str.replace('@', ''): the first "@" of str, wherever it is, is taken out
ReplaceAt(str) ==
    LET hits == { i \in 1..Len(str) : str[i] = "@" }
    IN  IF hits = {} THEN str
        ELSE LET k == CHOOSE i \in hits : \A j \in hits : i <= j
             IN  SubSeq(str, 1, k - 1) \o SubSeq(str, k + 1, Len(str))

\* an isAdmin that lets every handle through
isAdmin_Everyone(username, adminUsernames) == TRUE

\* adminUsernames.includes(username.replace('@', '')); V3 has no replace
isAdmin(username, adminUsernames) ==
    IF variant = "V3" THEN username \in adminUsernames
    ELSE ReplaceAt(username) \in adminUsernames

isValidTime(t) == t[1] \in 0..23 /\ t[2] \in 0..59

\* the < of two "HH:MM" strings
StrLess(a, b) == a[1] < b[1] \/ (a[1] = b[1] /\ a[2] < b[2])

\* the function without the step over midnight
calculateWorkedHours_NoWrap(start, end) ==
    LET minutes == (end[1] * 60 + end[2]) - (start[1] * 60 + start[2])
    IN  <<minutes \div 60, minutes % 60>>

calculateWorkedHours(start, end) ==
    LET raw     == (end[1] * 60 + end[2]) - (start[1] * 60 + start[2])
        minutes == IF raw < 0 THEN raw + 24 * 60 ELSE raw
    IN  <<minutes \div 60, minutes % 60>>

\* the condition with the end of the existing shift on both sides
Overlaps_EndOnly(startTime, endTime, shift) ==
    StrLess(startTime, shift[2]) /\ StrLess(shift[2], endTime)

\* the condition with <= and >= in place of < and >
Overlaps_Closed(startTime, endTime, shift) ==
    ~StrLess(shift[2], startTime) /\ ~StrLess(endTime, shift[1])

\* the condition of the loop over existingShifts
Overlaps(startTime, endTime, shift) ==
    StrLess(startTime, shift[2]) /\ StrLess(shift[1], endTime)

RECURSIVE SelectSeq2(_, _, _)
\* rows of a table, in rowid order, that satisfy Test
SelectSeq2(tbl, Test(_), i) ==
    IF i > Len(tbl) THEN <<>>
    ELSE (IF Test(tbl[i]) THEN <<tbl[i]>> ELSE <<>>) \o SelectSeq2(tbl, Test, i + 1)

\* the SELECT with status = 'active' added to its WHERE
ExistingShifts_ActiveOnly(u, d, g) ==
    LET Test(r) == r.username = u /\ r.shift_date = d /\ r.group_id = g
                     /\ r.status = "active"
        rows    == SelectSeq2(shifts, Test, 1)
    IN  [i \in 1..Len(rows) |-> <<rows[i].start_time, rows[i].end_time>>]

\* SELECT start_time, end_time ... WHERE username, shift_date, group_id
ExistingShifts(u, d, g) ==
    LET Test(r) == r.username = u /\ r.shift_date = d /\ r.group_id = g
        rows    == SelectSeq2(shifts, Test, 1)
    IN  [i \in 1..Len(rows) |-> <<rows[i].start_time, rows[i].end_time>>]

\* the loop naming the first existing shift instead of the one it stopped at
FirstOverlap_NamesFirst(startTime, endTime, existing) ==
    LET hits == { i \in 1..Len(existing) : Overlaps(startTime, endTime, existing[i]) }
    IN  IF hits = {} THEN <<>> ELSE <<existing[1]>>

\* the existing shift the loop returns on: <<shift>>, or <<>> if it runs through
FirstOverlap(startTime, endTime, existing) ==
    LET hits == { i \in 1..Len(existing) : Overlaps(startTime, endTime, existing[i]) }
    IN  IF hits = {} THEN <<>>
        ELSE <<existing[CHOOSE i \in hits : \A j \in hits : i <= j]>>

\* an INSERT that fills worked_hours with the scheduled duration
NewShift_WithHours(id, g, u, d, s, e) ==
    [id |-> id, group_id |-> g, username |-> u, shift_date |-> d,
     start_time |-> s, end_time |-> e, actual_end_time |-> Nil,
     worked_hours |-> calculateWorkedHours(s, e), status |-> "active"]

\* INSERT INTO shifts (...): the column defaults give the rest
NewShift(id, g, u, d, s, e) ==
    [id |-> id, group_id |-> g, username |-> u, shift_date |-> d,
     start_time |-> s, end_time |-> e, actual_end_time |-> Nil,
     worked_hours |-> Nil, status |-> "active"]

----------------------------------------------------------------------------
(* The worksheet *)

HeaderRow == [key |-> <<"", <<"Username">>>>, dates |-> <<>>, status |-> "Status",
              start |-> Nil, end |-> Nil, actual |-> Nil, worked |-> Nil]
EmptyRow  == [key |-> <<"", <<>>>>, dates |-> <<>>, status |-> "",
              start |-> Nil, end |-> Nil, actual |-> Nil, worked |-> Nil]

At(u) == <<"@", u>>

\* values.findIndex(row => row[2] === `@${username}`), 0-based, -1 if none
FindIndex(values, u) ==
    LET hits == { i \in 1..Len(values) : values[i].key = At(u) }
    IN  IF hits = {} THEN -1
        ELSE (CHOOSE i \in hits : \A j \in hits : i <= j) - 1

\* values.update of the one-row range A<n>:K<n>
UpdateRow(values, n, row) ==
    IF n <= Len(values) THEN [values EXCEPT ![n] = row]
    ELSE values \o [i \in 1..(n - Len(values) - 1) |-> EmptyRow] \o <<row>>

\* the row number the handlers write a found row back to
WriteBackRow(existingRowIndex) ==
    IF variant = "V1" THEN existingRowIndex + 2 ELSE existingRowIndex + 1

Contains(seq, x) == \E i \in 1..Len(seq) : seq[i] = x

\* the Timesheet / Sheet1 part of the photo handler
PhotoSheet(values, u, d, s, e) ==
    LET existingRowIndex == FindIndex(values, u)
        row              == values[existingRowIndex + 1]
    IN  IF existingRowIndex >= 0
        THEN IF ~Contains(row.dates, d)
             THEN UpdateRow(values, WriteBackRow(existingRowIndex),
                    IF variant = "V1"
                    THEN [row EXCEPT !.dates = Append(@, d), !.status = "Rabotal",
                                     !.start = s, !.end = e,
                                     !.actual = Blank, !.worked = Blank]
                    ELSE [row EXCEPT !.dates = Append(@, d), !.status = "Rabotal"])
             ELSE values
        ELSE Append(values,
               IF variant = "V1"
               THEN [key |-> At(u), dates |-> <<d>>, status |-> "Rabotal",
                     start |-> s, end |-> e, actual |-> Blank, worked |-> Blank]
               ELSE [key |-> At(u), dates |-> <<d>>, status |-> "Rabotal",
                     start |-> Nil, end |-> Nil, actual |-> Nil, worked |-> Nil])

----------------------------------------------------------------------------
(* Handler records *)

IdlePhoto == [pc |-> "idle"]
IdleConf  == [pc |-> "idle"]
IdleText  == [pc |-> "idle"]
IdleCron  == [pc |-> "idle"]

Reply(kind, arg) == [kind |-> kind, arg |-> arg]

\* the async functions that have started and not yet returned
InFlight ==
    Cardinality({ h \in Handlers : photo[h].pc # "idle" })
      + (IF conf.pc # "idle" THEN 1 ELSE 0)
      + (IF text.pc # "idle" THEN 1 ELSE 0)
      + (IF cron.pc # "idle" THEN 1 ELSE 0)

\* no helper call is being looked at
NoProbe == [op |-> "none"]

Init ==
    /\ variant \in Variants
    /\ today = Dates[1]
    /\ shifts = <<>>
    /\ sheet = <<HeaderRow>>
    /\ failLog = <<>>
    /\ photo = [h \in Handlers |-> IdlePhoto]
    /\ conf = IdleConf
    /\ text = IdleText
    /\ cron = IdleCron
    /\ session = Nil
    /\ lastReply = Reply("none", Nil)
    /\ probe = NoProbe

----------------------------------------------------------------------------
(* bot.on('photo') *)

\* up to the first await: the caption is matched and the times validated
PhotoStart(h, g, u, times) ==
    /\ photo[h].pc = "idle"
    /\ h = "h2" => photo["h1"].pc # "idle"
    /\ InFlight < MaxInFlight
    /\ IF ~isValidTime(times[1]) \/ ~isValidTime(times[2])
       THEN /\ lastReply' = Reply("bad_time", Nil)
            /\ UNCHANGED photo
       ELSE /\ photo' = [photo EXCEPT ![h] =
                  [pc |-> "query", g |-> g, u |-> u, date |-> today,
                   start |-> times[1], end |-> times[2]]]
            /\ UNCHANGED lastReply
    /\ UNCHANGED <<probe, variant, today, shifts, sheet, failLog, conf, text, cron, session>>

\* the SELECT of the existing shifts runs
PhotoQuery(h) ==
    /\ photo[h].pc = "query"
    /\ photo' = [photo EXCEPT ![h] =
          [pc |-> "check", g |-> @.g, u |-> @.u, date |-> @.date,
           start |-> @.start, end |-> @.end,
           existing |-> ExistingShifts(@.u, @.date, @.g)]]
    /\ UNCHANGED <<probe, variant, today, shifts, sheet, failLog, conf, text, cron,
                   session, lastReply>>

\* the loop over existingShifts, then the INSERT
PhotoInsert(h) ==
    LET p   == photo[h]
        hit == FirstOverlap(p.start, p.end, p.existing)
    IN
    /\ p.pc = "check"
    /\ IF hit # <<>>
       THEN /\ lastReply' = Reply("overlap", hit[1])
            /\ photo' = [photo EXCEPT ![h] = IdlePhoto]
            /\ UNCHANGED shifts
       ELSE /\ Len(shifts) < MaxShifts
            /\ shifts' = Append(shifts,
                  NewShift(Len(shifts) + 1, p.g, p.u, p.date, p.start, p.end))
            /\ IF variant = "V3"
               THEN /\ lastReply' = Reply("registered", Nil)
                    /\ photo' = [photo EXCEPT ![h] = IdlePhoto]
               ELSE /\ photo' = [photo EXCEPT ![h] =
                          [pc |-> "mirror", g |-> p.g, u |-> p.u, date |-> p.date,
                           start |-> p.start, end |-> p.end,
                           id |-> Len(shifts) + 1]]
                    /\ UNCHANGED lastReply
    /\ UNCHANGED <<probe, variant, today, sheet, failLog, conf, text, cron, session>>

\* the worksheet calls succeed, the success reply is sent
PhotoMirrorOk(h) ==
    LET p == photo[h] IN
    /\ p.pc = "mirror"
    /\ sheet' = PhotoSheet(sheet, p.u, p.date, p.start, p.end)
    /\ lastReply' = Reply("registered", Nil)
    /\ photo' = [photo EXCEPT ![h] = IdlePhoto]
    /\ UNCHANGED <<probe, variant, today, shifts, failLog, conf, text, cron, session>>

\* a catch block that deletes the row the handler inserted
PhotoMirrorFail_Rollback(h, written) ==
    LET p == photo[h] IN
    /\ p.pc = "mirror"
    /\ written => variant = "V1"
    /\ shifts' = SubSeq(shifts, 1, p.id - 1)
    /\ sheet' = IF written THEN PhotoSheet(sheet, p.u, p.date, p.start, p.end)
                ELSE sheet
    /\ lastReply' = Reply("reg_error", Nil)
    /\ photo' = [photo EXCEPT ![h] = IdlePhoto]
    /\ UNCHANGED <<probe, variant, today, failLog, conf, text, cron, session>>

\* a worksheet call rejects and the catch block replies; written says whether
\* the Timesheet write was already done (V1: updateReportSheet comes after it)
PhotoMirrorFail(h, written) ==
    LET p == photo[h] IN
    /\ p.pc = "mirror"
    /\ written => variant = "V1"
    /\ sheet' = IF written THEN PhotoSheet(sheet, p.u, p.date, p.start, p.end)
                ELSE sheet
    /\ lastReply' = Reply("reg_error", Nil)
    /\ photo' = [photo EXCEPT ![h] = IdlePhoto]
    /\ UNCHANGED <<probe, variant, today, shifts, failLog, conf, text, cron, session>>

----------------------------------------------------------------------------
(* The caption of a photo and the regular expression of bot.on('photo') *)

\* A caption is the sequence of its lines.  A line is a name (any text), two
\* times "HH:MM HH:MM", a zone "Зона <n>", a zone followed by more characters
\* on the line, a tag "W witag <n>", or other text.
NameLine        == [kind |-> "name"]
TimesLine(s, e) == [kind |-> "times", start |-> s, end |-> e]
ZoneLine        == [kind |-> "zone"]
ZoneMoreLine    == [kind |-> "zone_more"]
WitagLine       == [kind |-> "witag"]
TextLine        == [kind |-> "text"]

\* the pattern with $ after the optional tag
CaptionMatch_Anchored(caption) ==
    /\ Len(caption) \in {3, 4}
    /\ caption[2].kind = "times"
    /\ caption[3].kind = "zone"
    /\ Len(caption) = 4 => caption[4].kind = "witag"

\* /^([^\n]+)\n(\d{2}:\d{2})\s(\d{2}:\d{2})\n(Зона\s+\d+)(?:\n(W\s+witag\s+\d+))?/i
\* has ^ and no $: the first line is any text, the second the two times, the
\* third begins with a zone; what follows is not looked at
CaptionMatch(caption) ==
    /\ Len(caption) >= 3
    /\ caption[2].kind = "times"
    /\ caption[3].kind \in {"zone", "zone_more"}

\* the captions that are sent
Captions ==
    LET t == TimesLine(T0700, T1500) IN
    { <<NameLine, t, ZoneLine>>,
      <<NameLine, t, ZoneLine, WitagLine>>,
      <<NameLine, t, ZoneLine, TextLine>>,
      <<NameLine, t, ZoneLine, WitagLine, TextLine>>,
      <<NameLine, t, ZoneMoreLine>>,
      <<NameLine, TimesLine(T2500, T0700), ZoneLine>>,
      <<NameLine, t>>,
      <<t, ZoneLine>>,
      <<NameLine, TextLine, t, ZoneLine>> }

\* the photo handler up to its first await, from the caption on; probe keeps
\* the caption and whether the pattern matched
PhotoCaption(h, g, u, caption) ==
    LET m == CaptionMatch(caption) IN
    /\ photo[h].pc = "idle"
    /\ InFlight < MaxInFlight
    /\ probe' = [op |-> "caption", caption |-> caption, match |-> m]
    /\ IF ~m
       THEN /\ lastReply' = Reply("bad_format", Nil)
            /\ UNCHANGED photo
       ELSE IF ~isValidTime(caption[2].start) \/ ~isValidTime(caption[2].end)
       THEN /\ lastReply' = Reply("bad_time", Nil)
            /\ UNCHANGED photo
       ELSE /\ photo' = [photo EXCEPT ![h] =
                  [pc |-> "query", g |-> g, u |-> u, date |-> today,
                   start |-> caption[2].start, end |-> caption[2].end]]
            /\ UNCHANGED lastReply
    /\ UNCHANGED <<variant, today, shifts, sheet, failLog, conf, text, cron, session>>

----------------------------------------------------------------------------
(* Reads and writes of the table *)

\* a db.get that selects by id alone
dbGetShift_AnyGroup(id, g) ==
    IF id \in 1..Len(shifts) THEN <<shifts[id]>> ELSE <<>>

\* db.get("SELECT ... WHERE id = ? AND group_id = ?"): <<row>>, or <<>> for undefined
dbGetShift(id, g) ==
    IF id \in 1..Len(shifts) /\ shifts[id].group_id = g THEN <<shifts[id]>> ELSE <<>>

\* an UPDATE that sets worked_hours and leaves the status
UpdateStatusWorked_HoursOnly(tbl, id, g, status, wh) ==
    [i \in 1..Len(tbl) |->
        IF tbl[i].id = id /\ tbl[i].group_id = g
        THEN [tbl[i] EXCEPT !.worked_hours = <<0, 0>>]
        ELSE tbl[i]]

\* UPDATE shifts SET status = ?, worked_hours = ? WHERE id = ? AND group_id = ?
UpdateStatusWorked(tbl, id, g, status, wh) ==
    [i \in 1..Len(tbl) |->
        IF tbl[i].id = id /\ tbl[i].group_id = g
        THEN [tbl[i] EXCEPT !.status = status, !.worked_hours = wh]
        ELSE tbl[i]]

\* UPDATE shifts SET status = ? WHERE id = ? AND group_id = ?
UpdateStatus(tbl, id, g, status) ==
    [i \in 1..Len(tbl) |->
        IF tbl[i].id = id /\ tbl[i].group_id = g
        THEN [tbl[i] EXCEPT !.status = status]
        ELSE tbl[i]]

\* a manual end that stores the scheduled duration
UpdateManualEnd_ScheduledHours(tbl, id, g, actualEndTime, wh) ==
    [i \in 1..Len(tbl) |->
        IF tbl[i].id = id /\ tbl[i].group_id = g
        THEN [tbl[i] EXCEPT !.status = "completed",
                            !.actual_end_time = actualEndTime,
                            !.worked_hours =
                                calculateWorkedHours(tbl[i].start_time, tbl[i].end_time)]
        ELSE tbl[i]]

\* UPDATE shifts SET status = ?, actual_end_time = ?, worked_hours = ? WHERE ...
UpdateManualEnd(tbl, id, g, actualEndTime, wh) ==
    [i \in 1..Len(tbl) |->
        IF tbl[i].id = id /\ tbl[i].group_id = g
        THEN [tbl[i] EXCEPT !.status = "completed",
                            !.actual_end_time = actualEndTime,
                            !.worked_hours = wh]
        ELSE tbl[i]]

\* the worksheet write of a completion: the row of username gets the status
\* and, in V1, the worked hours and (manual end) the actual end time
CompletionSheet(values, username, status, actual, wh) ==
    LET existingRowIndex == FindIndex(values, username)
        row              == values[existingRowIndex + 1]
    IN  IF existingRowIndex >= 0
        THEN UpdateRow(values, WriteBackRow(existingRowIndex),
               IF variant = "V1"
               THEN [row EXCEPT !.status = status,
                                !.actual = IF actual = Nil THEN @ ELSE actual,
                                !.worked = wh]
               ELSE [row EXCEPT !.status = status])
        ELSE values

----------------------------------------------------------------------------
(* bot.action(/^confirm_action_(\d+)$/) *)

Digit(n) == <<"0", "1", "2", "3", "4", "5", "6", "7", "8", "9">>[n + 1]

\* ctx.callbackQuery.data of the confirm button of shiftActionsKeyboard
ConfirmData(id) ==
    <<"c", "o", "n", "f", "i", "r", "m", "_", "a", "c", "t", "i", "o", "n", "_">>
      \o <<Digit(id)>>

\* String.prototype.includes
Includes(str, sub) ==
    \E i \in 1..(Len(str) - Len(sub) + 1) : SubSeq(str, i, i + Len(sub) - 1) = sub

\* a confirm handler that always completes
ConfirmAction_Completed(data) == "completed"

\* the status the confirm handler writes
ConfirmAction(data) ==
    IF variant = "V1" THEN "completed"
    ELSE IF Includes(data, <<"e", "n", "d">>) THEN "completed" ELSE "canceled"

\* the admin check, then (V1, V2) the SELECT is issued
ConfStart(actor, g, id) ==
    /\ conf.pc = "idle"
    /\ InFlight < MaxInFlight
    /\ IF ~isAdmin(actor, AdminUsernames(g))
       THEN /\ lastReply' = Reply("denied", Nil)
            /\ UNCHANGED conf
       ELSE /\ conf' = [pc |-> IF variant = "V3" THEN "update" ELSE "get",
                        g |-> g, id |-> id, actor |-> actor,
                        action |-> ConfirmAction(ConfirmData(id)),
                        username |-> <<>>, wh |-> Nil]
            /\ UNCHANGED lastReply
    /\ UNCHANGED <<probe, variant, today, shifts, sheet, failLog, photo, text, cron, session>>

\* the SELECT runs; workedHours is computed from the row it returned
ConfGet ==
    LET got == dbGetShift(conf.id, conf.g) IN
    /\ conf.pc = "get"
    /\ IF conf.action = "completed" /\ got = <<>>
       THEN \* shift.start_time of undefined throws, the catch block replies
            /\ lastReply' = Reply("confirm_error", Nil)
            /\ conf' = IdleConf
       ELSE /\ conf' = [conf EXCEPT
                  !.pc = "update",
                  !.username = IF got = <<>> THEN <<>> ELSE got[1].username,
                  !.wh = IF conf.action = "completed"
                         THEN calculateWorkedHours(got[1].start_time, got[1].end_time)
                         ELSE Nil]
            /\ UNCHANGED lastReply
    /\ UNCHANGED <<probe, variant, today, shifts, sheet, failLog, photo, text, cron, session>>

\* the UPDATE runs
ConfUpdate ==
    /\ conf.pc = "update"
    /\ IF variant = "V3"
       THEN /\ shifts' = UpdateStatus(shifts, conf.id, conf.g, conf.action)
            /\ lastReply' = IF dbGetShift(conf.id, conf.g) # <<>>
                            THEN Reply("confirm_ok", Nil)
                            ELSE Reply("not_found", Nil)
            /\ conf' = IdleConf
       ELSE /\ shifts' = UpdateStatusWorked(shifts, conf.id, conf.g, conf.action, conf.wh)
            /\ IF variant = "V1" \/ conf.action = "completed"
               THEN /\ conf' = [conf EXCEPT !.pc = "mirror"]
                    /\ UNCHANGED lastReply
               ELSE /\ lastReply' = Reply("confirm_ok", Nil)
                    /\ conf' = IdleConf
    /\ UNCHANGED <<probe, variant, today, sheet, failLog, photo, text, cron, session>>

\* the row the confirm handler looks up: the shift's user in V1, the
\* admin who pressed the button in V2
ConfSheetUser == IF variant = "V1" THEN conf.username ELSE conf.actor

ConfMirrorOk ==
    /\ conf.pc = "mirror"
    /\ sheet' = CompletionSheet(sheet, ConfSheetUser, "Rabotal", Nil, conf.wh)
    /\ lastReply' = Reply("confirm_ok", Nil)
    /\ conf' = IdleConf
    /\ UNCHANGED <<probe, variant, today, shifts, failLog, photo, text, cron, session>>

\* whether the confirm handler calls sendMessage for the employee, given the
\* worksheet values it read: V1 always does, V2 and V3 have no such call
ConfNotifies(values, username) == variant = "V1"

\* whether the 23:05 job calls sendMessage for the employee of a shift: in V1
\* the call stands inside `if (existingRowIndex >= 0)`, V2 has no such call
CronNotifies(values, username) ==
    variant = "V1" /\ FindIndex(values, username) >= 0

\* a sendMessage to the employee outside a try block of its own: its
\* rejection is caught by the catch block of the handler
ConfNotifyFail_Outer ==
    /\ conf.pc = "mirror"
    /\ ConfNotifies(sheet, conf.username)
    /\ sheet' = CompletionSheet(sheet, ConfSheetUser, "Rabotal", Nil, conf.wh)
    /\ probe' = [op |-> "sendMessage", to |-> conf.username, id |-> conf.id,
                 ok |-> FALSE]
    /\ lastReply' = Reply("confirm_error", Nil)
    /\ conf' = IdleConf
    /\ UNCHANGED <<variant, today, shifts, failLog, photo, text, cron, session>>

\* the worksheet calls succeed and bot.telegram.sendMessage to the employee
\* rejects: its own catch block logs the error, the success reply follows
ConfNotifyFail ==
    /\ conf.pc = "mirror"
    /\ ConfNotifies(sheet, conf.username)
    /\ sheet' = CompletionSheet(sheet, ConfSheetUser, "Rabotal", Nil, conf.wh)
    /\ probe' = [op |-> "sendMessage", to |-> conf.username, id |-> conf.id,
                 ok |-> FALSE]
    /\ lastReply' = Reply("confirm_ok", Nil)
    /\ conf' = IdleConf
    /\ UNCHANGED <<variant, today, shifts, failLog, photo, text, cron, session>>

ConfMirrorFail(written) ==
    /\ conf.pc = "mirror"
    /\ written => variant = "V1"
    /\ sheet' = IF written
                THEN CompletionSheet(sheet, ConfSheetUser, "Rabotal", Nil, conf.wh)
                ELSE sheet
    /\ lastReply' = Reply("confirm_error", Nil)
    /\ conf' = IdleConf
    /\ UNCHANGED <<probe, variant, today, shifts, failLog, photo, text, cron, session>>

----------------------------------------------------------------------------
(* bot.action(/^(end_shift_|manual_end_shift_)(\d+)$/), manual_end branch,   *)
(* and bot.on('text')                                                       *)

\* the select handler: ctx.session = { awaitingManualEnd: true, shiftId }
SelectManualEnd(actor, g, id) ==
    /\ variant \in {"V1", "V2"}
    /\ IF ~isAdmin(actor, AdminUsernames(g))
       THEN /\ lastReply' = Reply("denied", Nil)
            /\ UNCHANGED session
       ELSE IF dbGetShift(id, g) = <<>>
       THEN /\ lastReply' = Reply("not_found", Nil)
            /\ UNCHANGED session
       ELSE /\ lastReply' = Reply("enter_time", Nil)
            /\ session' = <<[g |-> g, shiftId |-> id]>>
    /\ UNCHANGED <<probe, variant, today, shifts, sheet, failLog, photo, conf, text, cron>>

\* The text handler up to its first await.  ctx.session is a property of the
\* context object of one update; awaiting says whether the context of this
\* text update carries the object the select handler made and the message
\* is a reply (the condition of line 713).
TextStart(actor, g, txt, awaiting) ==
    /\ variant \in {"V1", "V2"}
    /\ text.pc = "idle"
    /\ InFlight < MaxInFlight
    /\ IF ~(awaiting /\ session # Nil /\ session[1].g = g)
       THEN UNCHANGED <<text, lastReply>>
       ELSE IF ~isAdmin(actor, AdminUsernames(g))
       THEN /\ lastReply' = Reply("denied", Nil)
            /\ UNCHANGED text
       ELSE IF ~isValidTime(txt)
       THEN /\ lastReply' = Reply("bad_time", Nil)
            /\ UNCHANGED text
       ELSE /\ text' = [pc |-> "get", g |-> g, id |-> session[1].shiftId,
                        actor |-> actor, actualEndTime |-> txt,
                        username |-> <<>>, start |-> Nil, wh |-> Nil]
            /\ UNCHANGED lastReply
    /\ UNCHANGED <<probe, variant, today, shifts, sheet, failLog, photo, conf, cron, session>>

\* a session middleware that hands the stored object to the next update
NewContextSession_Stored == session

\* ctx.session at the start of a handler: Telegraf builds a new context
\* object for every update, and the program installs no session middleware
\* (bot.use is called once, for the group lookup), so the property is not
\* there; `session` is the object the select handler put on its own context
NewContextSession == Nil

\* bot.on('text') for the text update that follows, up to its first await;
\* probe keeps the update and the object the select handler had made
TextEvent(actor, g, txt) ==
    LET ctxSession == NewContextSession IN
    /\ variant \in {"V1", "V2"}
    /\ text.pc = "idle"
    /\ InFlight < MaxInFlight
    /\ probe' = [op |-> "text", actor |-> actor, g |-> g, txt |-> txt,
                 pending |-> session]
    /\ IF ctxSession = Nil
       THEN UNCHANGED <<text, lastReply>>
       ELSE IF ~isAdmin(actor, AdminUsernames(g))
       THEN /\ lastReply' = Reply("denied", Nil)
            /\ UNCHANGED text
       ELSE IF ~isValidTime(txt)
       THEN /\ lastReply' = Reply("bad_time", Nil)
            /\ UNCHANGED text
       ELSE /\ text' = [pc |-> "get", g |-> g, id |-> ctxSession[1].shiftId,
                        actor |-> actor, actualEndTime |-> txt,
                        username |-> <<>>, start |-> Nil, wh |-> Nil]
            /\ UNCHANGED lastReply
    /\ UNCHANGED <<variant, today, shifts, sheet, failLog, photo, conf, cron, session>>

TextGet ==
    LET got == dbGetShift(text.id, text.g) IN
    /\ text.pc = "get"
    /\ IF got = <<>>
       THEN /\ lastReply' = Reply("not_found", Nil)
            /\ text' = IdleText
       ELSE /\ text' = [text EXCEPT
                  !.pc = "update",
                  !.username = got[1].username,
                  !.start = got[1].start_time,
                  !.wh = calculateWorkedHours(got[1].start_time, text.actualEndTime)]
            /\ UNCHANGED lastReply
    /\ UNCHANGED <<probe, variant, today, shifts, sheet, failLog, photo, conf, cron, session>>

TextUpdate ==
    /\ text.pc = "update"
    /\ shifts' = UpdateManualEnd(shifts, text.id, text.g, text.actualEndTime, text.wh)
    /\ text' = [text EXCEPT !.pc = "mirror"]
    /\ UNCHANGED <<probe, variant, today, sheet, failLog, photo, conf, cron, session, lastReply>>

\* the row appended to shift_fail (V1)
FailRow(values) ==
    LET row == values[FindIndex(values, text.username) + 1] IN
    [shiftId |-> text.id, username |-> text.username,
     date |-> IF row.dates = <<>> THEN "" ELSE row.dates[Len(row.dates)],
     start |-> text.start, actual |-> text.actualEndTime,
     worked |-> text.wh, admin |-> text.actor]

\* V1 reads timesheetValues[existingRowIndex][5] also when no row was found
TextThrows == variant = "V1" /\ FindIndex(sheet, text.username) < 0

TextMirrorOk ==
    /\ text.pc = "mirror"
    /\ ~TextThrows
    /\ sheet' = CompletionSheet(sheet, text.username, "Prervan",
                                text.actualEndTime, text.wh)
    /\ variant = "V1" => Len(failLog) < MaxFails
    /\ failLog' = IF variant = "V1" THEN Append(failLog, FailRow(sheet)) ELSE failLog
    /\ lastReply' = Reply("manual_ok", Nil)
    /\ session' = Nil
    /\ text' = IdleText
    /\ UNCHANGED <<probe, variant, today, shifts, photo, conf, cron>>

\* the worksheet calls succeed, the success reply is sent, and then
\* bot.telegram.sendMessage to the employee rejects: its catch block logs it
TextNotifyFail ==
    /\ variant = "V1"
    /\ text.pc = "mirror"
    /\ ~TextThrows
    /\ sheet' = CompletionSheet(sheet, text.username, "Prervan",
                                text.actualEndTime, text.wh)
    /\ Len(failLog) < MaxFails
    /\ failLog' = Append(failLog, FailRow(sheet))
    /\ probe' = [op |-> "sendMessage", to |-> text.username, id |-> text.id,
                 ok |-> FALSE]
    /\ lastReply' = Reply("manual_ok", Nil)
    /\ session' = Nil
    /\ text' = IdleText
    /\ UNCHANGED <<variant, today, shifts, photo, conf, cron>>

\* stage: "get" nothing was written, "append" the Timesheet row was written
\* (V1), "report" the shift_fail row was written too (V1)
TextMirrorFail(stage) ==
    /\ text.pc = "mirror"
    /\ stage \in {"get", "append", "report"}
    /\ stage # "get" => variant = "V1" /\ ~TextThrows
    /\ stage = "report" => Len(failLog) < MaxFails
    /\ sheet' = IF stage = "get" THEN sheet
                ELSE CompletionSheet(sheet, text.username, "Prervan",
                                     text.actualEndTime, text.wh)
    /\ failLog' = IF stage = "report" THEN Append(failLog, FailRow(sheet)) ELSE failLog
    /\ lastReply' = Reply("manual_error", Nil)
    /\ text' = IdleText
    /\ UNCHANGED <<probe, variant, today, shifts, photo, conf, cron, session>>

----------------------------------------------------------------------------
(* The admin panel: /admin, admin_report, report_(week|month)_*,             *)
(* active_shifts, timesheet, the end-shift menus, show_shifts_report         *)

ViewKinds == {"admin", "admin_report", "report", "active_shifts", "timesheet",
              "menu", "shifts_report"}

\* Each of these handlers checks the admin list first and then only reads
\* the table or the worksheet and replies; admin_report and report also
\* rebuild the Report worksheet, which is derived from the table and is not
\* among the variables.
AdminView(actor, g, kind) ==
    /\ kind = "shifts_report" => variant = "V1"
    /\ lastReply' = IF ~isAdmin(actor, AdminUsernames(g))
                    THEN Reply("denied", Nil)
                    ELSE Reply("view", Nil)
    /\ UNCHANGED <<probe, variant, today, shifts, sheet, failLog, photo, conf, text,
                   cron, session>>

----------------------------------------------------------------------------
(* cron.schedule('5 23 * * *') *)

CronStart(g) ==
    /\ variant \in {"V1", "V2"}
    /\ cron.pc = "idle"
    /\ InFlight < MaxInFlight
    /\ cron' = [pc |-> "select", g |-> g, date |-> today, list |-> <<>>, i |-> 1]
    /\ UNCHANGED <<probe, variant, today, shifts, sheet, failLog, photo, conf, text,
                   session, lastReply>>

\* a SELECT with LIMIT 1
ActiveShifts_First(d, g) ==
    LET Test(r) == r.status = "active" /\ r.shift_date = d /\ r.group_id = g
        rows    == SelectSeq2(shifts, Test, 1)
    IN  IF rows = <<>> THEN <<>> ELSE <<rows[1]>>

\* SELECT id, start_time, end_time, username ... WHERE status = 'active' ...
ActiveShifts(d, g) ==
    LET Test(r) == r.status = "active" /\ r.shift_date = d /\ r.group_id = g
    IN  SelectSeq2(shifts, Test, 1)

CronSelect ==
    LET rows == ActiveShifts(cron.date, cron.g)
        list == [k \in 1..Len(rows) |->
                   [id |-> rows[k].id, start_time |-> rows[k].start_time,
                    end_time |-> rows[k].end_time, username |-> rows[k].username]]
    IN
    /\ cron.pc = "select"
    /\ IF list = <<>>
       THEN cron' = IdleCron
       ELSE cron' = [cron EXCEPT !.pc = "update", !.list = list]
    /\ UNCHANGED lastReply
    /\ UNCHANGED <<probe, variant, today, shifts, sheet, failLog, photo, conf, text, session>>

\* the UPDATE of the shift the loop is at
CronUpdate ==
    LET shift == cron.list[cron.i] IN
    /\ cron.pc = "update"
    /\ shifts' = UpdateStatusWorked(shifts, shift.id, cron.g, "completed",
                    calculateWorkedHours(shift.start_time, shift.end_time))
    /\ cron' = [cron EXCEPT !.pc = "mirror"]
    /\ UNCHANGED <<probe, variant, today, sheet, failLog, photo, conf, text, session, lastReply>>

\* the worksheet calls of the shift the loop is at succeed
CronMirrorOk ==
    LET shift == cron.list[cron.i] IN
    /\ cron.pc = "mirror"
    /\ sheet' = CompletionSheet(sheet, shift.username, "Rabotal", Nil,
                   calculateWorkedHours(shift.start_time, shift.end_time))
    /\ IF cron.i < Len(cron.list)
       THEN cron' = [cron EXCEPT !.pc = "update", !.i = @ + 1]
       ELSE cron' = IdleCron
    /\ UNCHANGED <<probe, variant, today, shifts, failLog, photo, conf, text, session,
                   lastReply>>

\* a worksheet call rejects: the outer catch logs it and the job returns
CronMirrorFail ==
    /\ cron.pc = "mirror"
    /\ cron' = IdleCron
    /\ UNCHANGED <<probe, variant, today, shifts, sheet, failLog, photo, conf, text, session,
                   lastReply>>

----------------------------------------------------------------------------
(* cron.schedule('16 18 * * *'): the day-off marks *)

\* `${shiftDate} (выходной)`
Marker(d) == d \o " (off)"

\* the characters of the cell row[2]
KeyChars(key) == (IF key[1] = "@" THEN <<"@">> ELSE <<>>) \o key[2]

\* (row[5] || '').split(',').map(s => s.trim()): the cell is kept as its
\* lines in V1 (the photo handler joins with '\n') and as its ', ' items in
\* V2; a piece is the sequence of the lines it holds
SplitComma(dates) ==
    IF variant = "V1" THEN <<dates>>
    ELSE [i \in 1..Len(dates) |-> <<dates[i]>>]

RECURSIVE JoinPieces(_)
\* existingDates.join('\n') in V1, .join(', ') in V2
JoinPieces(pieces) ==
    IF pieces = <<>> THEN <<>> ELSE Head(pieces) \o JoinPieces(Tail(pieces))

\* the row number of values.update for the row at values[i] (i counts from 1)
DayOffTarget(i) == IF variant = "V1" THEN i + 1 ELSE i

\* getCurrentDate and the values.get of the worksheet
DayOffStart(g) ==
    /\ variant \in {"V1", "V2"}
    /\ cron.pc = "idle"
    /\ InFlight < MaxInFlight
    /\ Len(sheet) < MaxRows
    /\ IF Len(sheet) < 2
       THEN cron' = IdleCron
       ELSE cron' = [pc |-> "dayoff", g |-> g, date |-> today, values |-> sheet, i |-> 2]
    /\ UNCHANGED <<probe, variant, today, shifts, sheet, failLog, photo, conf, text,
                   session, lastReply>>

\* a loop body that also stores a shift row for the day off
DayOffRow_WithShift ==
    LET row           == cron.values[cron.i]
        existingDates == SplitComma(row.dates)
        marked        == Append(existingDates, <<Marker(cron.date)>>)
    IN
    /\ cron.pc = "dayoff"
    /\ sheet' = UpdateRow(sheet, DayOffTarget(cron.i),
                  [row EXCEPT !.dates = JoinPieces(marked)])
    /\ shifts' = IF Len(shifts) < MaxShifts
                 THEN Append(shifts, [NewShift(Len(shifts) + 1, cron.g, row.key[2],
                                 cron.date, Nil, Nil) EXCEPT !.status = "dayoff"])
                 ELSE [shifts EXCEPT ![1].status = "dayoff"]
    /\ cron' = IF cron.i < Len(cron.values) THEN [cron EXCEPT !.i = @ + 1] ELSE IdleCron
    /\ UNCHANGED <<probe, variant, today, failLog, photo, conf, text, session, lastReply>>

\* one turn of the loop over the employees: the SELECT of the employee's
\* shifts of the date, then the values.update of the marked row; the
\* sendMessage that follows is in a try/catch of its own and changes nothing
DayOffRow ==
    LET row           == cron.values[cron.i]
        username      == ReplaceAt(KeyChars(row.key))
        had           == \E k \in 1..Len(shifts) :
                            /\ shifts[k].username = username
                            /\ shifts[k].shift_date = cron.date
                            /\ shifts[k].group_id = cron.g
        existingDates == SplitComma(row.dates)
        marked        == Append(existingDates, <<Marker(cron.date)>>)
    IN
    /\ cron.pc = "dayoff"
    /\ IF had \/ Contains(existingDates, <<Marker(cron.date)>>)
       THEN UNCHANGED sheet
       ELSE sheet' = UpdateRow(sheet, DayOffTarget(cron.i),
                       IF variant = "V1"
                       THEN [row EXCEPT !.dates = JoinPieces(marked),
                                        !.status = "Vyhodnoy"]
                       ELSE [row EXCEPT !.dates = JoinPieces(marked)])
    /\ cron' = IF cron.i < Len(cron.values) THEN [cron EXCEPT !.i = @ + 1] ELSE IdleCron
    /\ UNCHANGED <<probe, variant, today, shifts, failLog, photo, conf, text, session,
                   lastReply>>

----------------------------------------------------------------------------
(* updateReportSheet (V1) *)

WeekFilters == {"month", "current"}

\* the clock: days since 1970-01-01 of the dates of Dates, in June 2026
ClockDay(d) == IF d = Dates[1] THEN 20605 ELSE 20606
\* new Date().getDay() of the clock, 1 is Monday
ClockWeekDay(d) == IF d = Dates[1] THEN 1 ELSE 2

\* startDate and endDate, as days since 1970-01-01
PeriodStart(weekFilter, d) ==
    IF weekFilter = "current" THEN ClockDay(d) - ClockWeekDay(d) + 1 ELSE 20605
PeriodEnd(weekFilter, d) ==
    IF weekFilter = "current" THEN PeriodStart(weekFilter, d) + 6 ELSE 20634

\* date(shift_date, 'unixepoch'): the text "DD.MM" is read as the number
\* DD.MM of seconds after 1970-01-01 00:00
ShiftEpochDay(shift_date) ==
    LET seconds == IF shift_date = Dates[1] THEN 1 ELSE 2
    IN  seconds \div 86400

\* parseInt(shift.shift_date.split('.')[0])
DayOfMonth(shift_date) == IF shift_date = Dates[1] THEN 1 ELSE 2

RECURSIVE Distinct(_, _)
\* SELECT DISTINCT username ... : the usernames of rows, each once
Distinct(rows, seen) ==
    IF rows = <<>> THEN <<>>
    ELSE IF Head(rows).username \in seen THEN Distinct(Tail(rows), seen)
    ELSE <<Head(rows).username>> \o Distinct(Tail(rows), seen \cup {Head(rows).username})

RECURSIVE SumMinutes(_)
\* totalHours += hours + minutes / 60 over the shifts, in minutes
SumMinutes(rows) ==
    IF rows = <<>> THEN 0
    ELSE (Head(rows).end_time[1] - Head(rows).start_time[1]) * 60
           + (Head(rows).end_time[2] - Head(rows).start_time[2])
           + SumMinutes(Tail(rows))

\* totalHours.toFixed(1), in tenths of an hour
ToFixed1(minutes) ==
    IF minutes >= 0 THEN (minutes + 3) \div 6 ELSE 0 - ((3 - minutes) \div 6)

\* the rows of `values`: the header row, then one row for each user of the group
ReportValues(g, weekFilter) ==
    LET InGroup(r)  == r.group_id = g
        InPeriod(r) == /\ r.group_id = g
                       /\ PeriodStart(weekFilter, today) <= ShiftEpochDay(r.shift_date)
                       /\ ShiftEpochDay(r.shift_date) <= PeriodEnd(weekFilter, today)
        users       == Distinct(SelectSeq2(shifts, InGroup, 1), {})
        period      == SelectSeq2(shifts, InPeriod, 1)
        Of(u)       == LET Mine(r) == r.username = u IN SelectSeq2(period, Mine, 1)
        Days(rows)  == { <<DayOfMonth(rows[i].shift_date), rows[i].start_time,
                           rows[i].end_time>> :
                         i \in { j \in 1..Len(rows) :
                                   \A k \in (j + 1)..Len(rows) :
                                      rows[k].shift_date # rows[j].shift_date } }
    IN  <<[label |-> <<"F", "I", "O">>, days |-> {}, totalShifts |-> 0, totalHours |-> 0]>>
        \o [i \in 1..Len(users) |->
              [label |-> users[i], days |-> Days(Of(users[i])),
               totalShifts |-> Len(Of(users[i])),
               totalHours |-> ToFixed1(SumMinutes(Of(users[i])))]]

\* a values.append in place of the values.update
WriteReport_Append(old, values) == old \o values

\* values.update of the range Report!A1:AG: the rows of values replace the
\* first rows of the worksheet, the rows below them stay
WriteReport(old, values) == values \o SubSeq(old, Len(values) + 1, Len(old))

\* one call of updateReportSheet(groupId, weekFilter); probe keeps its
\* arguments, the clock and the table it read, the Report worksheet after
\* it, and how many calls in a row had these arguments, clock and table
UpdateReport(g, weekFilter) ==
    LET same  == /\ probe.op = "updateReportSheet"
                 /\ probe.g = g
                 /\ probe.weekFilter = weekFilter
                 /\ probe.day = today
                 /\ probe.at = shifts
        old   == IF probe.op = "updateReportSheet" THEN probe.report ELSE <<>>
        calls == IF same THEN probe.calls + 1 ELSE 1
    IN
    /\ variant = "V1"
    /\ calls <= MaxCalls
    /\ probe' = [op |-> "updateReportSheet", g |-> g, weekFilter |-> weekFilter,
                 day |-> today, at |-> shifts, calls |-> calls,
                 report |-> WriteReport(old, ReportValues(g, weekFilter))]
    /\ UNCHANGED <<variant, today, shifts, sheet, failLog, photo, conf, text, cron,
                   session, lastReply>>

----------------------------------------------------------------------------
(* The Report part of bot.on('photo') in src/unnamed/part_001, which is the  *)
(* V1 program with this code in place of the call of updateReportSheet       *)

\* the header row ensureSheetExists writes to a new Report worksheet
ReportHead == [label |-> <<"F", "N">>, days |-> {}, summary |-> 0]

\* values.get of 'Report!A1:AF1', findIndex by full name, then the update of
\* the row found or the append of a new row; the user's handle stands for
\* the full name
PatchReport(old, fullName, shiftDate) ==
    LET reportValues   == SubSeq(old, 1, 1)
        hits           == { i \in 1..Len(reportValues) : reportValues[i].label = fullName }
        reportRowIndex == IF hits = {} THEN -1 ELSE (CHOOSE i \in hits : TRUE) - 1
        dayIndex       == DayOfMonth(shiftDate)
    IN  IF reportRowIndex >= 0
        THEN LET row  == reportValues[reportRowIndex + 1]
                 days == row.days \cup {dayIndex}
                 new  == [row EXCEPT !.days = days, !.summary = Cardinality(days)]
                 n    == reportRowIndex + 2
             IN  IF n <= Len(old) THEN [old EXCEPT ![n] = new] ELSE Append(old, new)
        ELSE Append(old, [label |-> fullName, days |-> {dayIndex}, summary |-> 1])

\* the worksheet calls succeed: Timesheet, then Report, then the success reply;
\* probe keeps the Report worksheet
PhotoMirrorPatch(h) ==
    LET p   == photo[h]
        old == IF probe.op = "report" THEN probe.report ELSE <<ReportHead>>
    IN
    /\ variant = "V1"
    /\ p.pc = "mirror"
    /\ sheet' = PhotoSheet(sheet, p.u, p.date, p.start, p.end)
    /\ probe' = [op |-> "report", report |-> PatchReport(old, p.u, p.date)]
    /\ lastReply' = Reply("registered", Nil)
    /\ photo' = [photo EXCEPT ![h] = IdlePhoto]
    /\ UNCHANGED <<variant, today, shifts, failLog, conf, text, cron, session>>

----------------------------------------------------------------------------

\* midnight in the group's time zone: getCurrentDate returns the next day
NextDay ==
    /\ today = Dates[1]
    /\ today' = Dates[2]
    /\ UNCHANGED <<probe, variant, shifts, sheet, failLog, photo, conf, text, cron,
                   session, lastReply>>

ShiftIds == 1..MaxShifts

\* the steps of a photo handler after its start
PhotoSteps(h) ==
    \/ PhotoQuery(h)
    \/ PhotoInsert(h)
    \/ PhotoMirrorOk(h)
    \/ \E w \in BOOLEAN : PhotoMirrorFail(h, w)

\* the photos sent while the admin actions and the job are looked at
LifeSenders == { <<"g1", U1>> }
LifeTimes   == { <<T0700, T1500>> }
LifeTexts   == { T1345, T2500 }
LifeGroups  == Groups

Next ==
    \/ \E s \in LifeSenders, t \in LifeTimes : PhotoStart("h1", s[1], s[2], t)
    \/ PhotoSteps("h1")
    \/ \E a \in Actors, g \in LifeGroups, id \in ShiftIds : ConfStart(a, g, id)
    \/ ConfGet
    \/ ConfUpdate
    \/ ConfMirrorOk
    \/ \E w \in BOOLEAN : ConfMirrorFail(w)
    \/ \E a \in Actors, g \in LifeGroups, id \in ShiftIds : SelectManualEnd(a, g, id)
    \/ \E a \in Actors, g \in LifeGroups, t \in LifeTexts, w \in BOOLEAN :
          TextStart(a, g, t, w)
    \/ TextGet
    \/ TextUpdate
    \/ TextMirrorOk
    \/ \E st \in {"get", "append", "report"} : TextMirrorFail(st)
    \/ \E g \in LifeGroups : CronStart(g)
    \/ CronSelect
    \/ CronUpdate
    \/ CronMirrorOk
    \/ CronMirrorFail

Spec == Init /\ [][Next]_vars

\* the admin panel, confirm and manual end, invoked by admins and by others
NextAuth ==
    \/ \E s \in LifeSenders, t \in LifeTimes : PhotoStart("h1", s[1], s[2], t)
    \/ PhotoSteps("h1")
    \/ \E a \in Actors, g \in LifeGroups, k \in ViewKinds : AdminView(a, g, k)
    \/ \E a \in Actors, g \in LifeGroups, id \in ShiftIds : ConfStart(a, g, id)
    \/ ConfGet
    \/ ConfUpdate
    \/ ConfMirrorOk
    \/ \E a \in Actors, g \in LifeGroups, id \in ShiftIds : SelectManualEnd(a, g, id)
    \/ \E a \in Actors, g \in LifeGroups, t \in LifeTexts, w \in BOOLEAN :
          TextStart(a, g, t, w)
    \/ TextGet
    \/ TextUpdate
    \/ TextMirrorOk

SpecAuth == Init /\ [][NextAuth]_vars

\* photo handlers only, two of them in flight
RegSenders == { <<"g1", U1>>, <<"g2", U1>> }
RegTimes   == { <<T0700, T1500>>, <<T1400, T2300>> }

NextReg ==
    \/ \E h \in Handlers, s \in RegSenders, t \in RegTimes :
          PhotoStart(h, s[1], s[2], t)
    \/ \E h \in Handlers : PhotoSteps(h)

SpecReg == Init /\ [][NextReg]_vars

\* one submitter in each of the two groups; confirm, manual end and the
\* 23:05 job run for either group, one handler at a time, no worksheet
\* call fails
NextScope ==
    \/ \E s \in RegSenders, t \in LifeTimes : InFlight = 0 /\ PhotoStart("h1", s[1], s[2], t)
    \/ PhotoQuery("h1")
    \/ PhotoInsert("h1")
    \/ PhotoMirrorOk("h1")
    \/ \E g \in Groups, id \in ShiftIds : InFlight = 0 /\ ConfStart(Admin, g, id)
    \/ ConfGet
    \/ ConfUpdate
    \/ ConfMirrorOk
    \/ \E g \in Groups, id \in ShiftIds : SelectManualEnd(Admin, g, id)
    \/ \E g \in Groups : InFlight = 0 /\ TextStart(Admin, g, T1345, TRUE)
    \/ TextGet
    \/ TextUpdate
    \/ TextMirrorOk
    \/ \E g \in Groups : InFlight = 0 /\ CronStart(g)
    \/ CronSelect
    \/ CronUpdate
    \/ CronMirrorOk

SpecScope == Init /\ [][NextScope]_vars

\* photo handlers only, one at a time
NextSeq ==
    \/ \E s \in Senders, t \in CaptionTimes : PhotoStart("h1", s[1], s[2], t)
    \/ PhotoSteps("h1")

SpecSeq == Init /\ [][NextSeq]_vars

\* the photos of two users of a group and the 23:05 job
CronSenders == { <<"g1", U1>>, <<"g1", U2>> }

NextCron ==
    \/ \E s \in CronSenders, t \in LifeTimes : PhotoStart("h1", s[1], s[2], t)
    \/ PhotoSteps("h1")
    \/ \E g \in LifeGroups : CronStart(g)
    \/ CronSelect
    \/ CronUpdate
    \/ CronMirrorOk
    \/ CronMirrorFail
    \/ NextDay

SpecCron == Init /\ [][NextCron]_vars

\* confirm and manual end with the notification of the employee rejected
NextNotify ==
    \/ \E s \in LifeSenders, t \in LifeTimes : PhotoStart("h1", s[1], s[2], t)
    \/ PhotoSteps("h1")
    \/ \E a \in Actors, g \in LifeGroups, id \in ShiftIds : ConfStart(a, g, id)
    \/ ConfGet
    \/ ConfUpdate
    \/ ConfMirrorOk
    \/ ConfNotifyFail
    \/ \E w \in BOOLEAN : ConfMirrorFail(w)
    \/ \E a \in Actors, g \in LifeGroups, id \in ShiftIds : SelectManualEnd(a, g, id)
    \/ \E a \in Actors, g \in LifeGroups, t \in LifeTexts, w \in BOOLEAN :
          TextStart(a, g, t, w)
    \/ TextGet
    \/ TextUpdate
    \/ TextMirrorOk
    \/ TextNotifyFail
    \/ \E st \in {"get", "append", "report"} : TextMirrorFail(st)

SpecNotify == Init /\ [][NextNotify]_vars

\* the photos of the users of two groups and calls of updateReportSheet
NextReport ==
    \/ \E s \in Senders, t \in LifeTimes : PhotoStart("h1", s[1], s[2], t)
    \/ PhotoSteps("h1")
    \/ \E g \in Groups, wf \in WeekFilters : UpdateReport(g, wf)
    \/ NextDay

SpecReport == Init /\ [][NextReport]_vars

\* the photo handler of part_001 on two days, every worksheet call succeeding
NextPatch ==
    \/ \E s \in CronSenders, t \in LifeTimes : PhotoStart("h1", s[1], s[2], t)
    \/ PhotoQuery("h1")
    \/ PhotoInsert("h1")
    \/ PhotoMirrorPatch("h1")
    \/ NextDay

SpecPatch == Init /\ [][NextPatch]_vars

\* photos with captions of every shape
NextCaption ==
    \/ \E s \in Senders, c \in Captions : PhotoCaption("h1", s[1], s[2], c)
    \/ PhotoSteps("h1")
    \/ NextDay

SpecCaption == Init /\ [][NextCaption]_vars

\* the manual-end menu and the text update that follows it
NextSession ==
    \/ \E s \in CronSenders, t \in LifeTimes : PhotoStart("h1", s[1], s[2], t)
    \/ PhotoSteps("h1")
    \/ \E a \in Actors, g \in LifeGroups, id \in ShiftIds : SelectManualEnd(a, g, id)
    \/ \E a \in Actors, g \in LifeGroups, t \in LifeTexts : TextEvent(a, g, t)

SpecSession == Init /\ [][NextSession]_vars

\* the photos of two users and the 18:16 job of either group
NextDayOff ==
    \/ \E s \in CronSenders, t \in LifeTimes : PhotoStart("h1", s[1], s[2], t)
    \/ PhotoSteps("h1")
    \/ \E g \in LifeGroups : DayOffStart(g)
    \/ DayOffRow
    \/ NextDay

SpecDayOff == Init /\ [][NextDayOff]_vars

----------------------------------------------------------------------------
(* calculateWorkedHours on its own *)

\* the valid "HH:MM" arguments that are tried
HoursTimes == { <<h, m>> : h \in {0, 7, 13, 23}, m \in {0, 1, 59} }

\* one call; probe keeps the arguments and the result "Xh Ym" as <<X, Y>>
WorkedHoursCall(start, end) ==
    /\ isValidTime(start) /\ isValidTime(end)
    /\ probe' = [op |-> "calculateWorkedHours", start |-> start, end |-> end,
                 result |-> calculateWorkedHours(start, end)]
    /\ UNCHANGED <<variant, today, shifts, sheet, failLog, photo, conf, text, cron,
                   session, lastReply>>

NextHours == \E start \in HoursTimes, end \in HoursTimes : WorkedHoursCall(start, end)

SpecHours == Init /\ [][NextHours]_vars

----------------------------------------------------------------------------
(* unnamed/part_000: the single-group program, in Python. The table shifts of
   shifts.db and the worksheets Sheet1 and Report are the fields db, rows and
   report of probe; seq is the AUTOINCREMENT counter of the table. *)

\* rows ever inserted into the table shifts
MaxIds == 3

\* message.from_user.id
PyUsers   == {1, 2}
ADMIN_IDS == {1}
\* the "HH:MM" strings that are sent
PyTimes   == {T0700, T1500, T2300}
\* the ids and the texts an admin sends
PyShiftIds == 1..MaxIds
PyTexts    == { [kind |-> "home", a |-> T1500, b |-> Nil] }
              \cup { [kind |-> "schedule", a |-> t[1], b |-> t[2]] :
                       t \in { <<T0700, T1500>>, <<T0700, T2300>>,
                               <<T1500, T0700>> } }
\* the employee whose shifts are edited
PyEdited   == {2}

\* after init_db and get_gsheets_client on new files
PyInit == [op |-> "py", seq |-> 0, db |-> {}, rows |-> <<>>, report |-> <<>>,
           reply |-> "none"]

Py == IF probe.op = "py" THEN probe ELSE PyInit

\* def add_shift_sqlite(user_id, full_name, photo_id, s_date, s_time, e_time,
\*                      zone, witag)
add_shift_sqlite_params == 8

\* INSERT with actual_end_time and worked_hours None; the id is the next
\* AUTOINCREMENT value; created_at counts the inserts
add_shift_sqlite(p, user_id, s_date, s_time, e_time) ==
    [p EXCEPT !.seq = @ + 1,
              !.db  = @ \cup { [id |-> p.seq + 1, user_id |-> user_id,
                                shift_date |-> s_date, start_time |-> s_time,
                                end_time |-> e_time, actual_end_time |-> Nil,
                                worked_hours |-> Nil,
                                created_at |-> p.seq + 1] }]

delete_shift_sqlite(p, shift_id) ==
    [p EXCEPT !.db = { s \in @ : s.id # shift_id }]

\* Report is left alone when Sheet1 has no shift, else cleared and rebuilt
\* with the cells shift[4], shift[2], shift[5], shift[6] or shift[7]
update_report_worksheet(p) ==
    IF p.rows = <<>> THEN p
    ELSE [p EXCEPT !.report =
            [i \in 1..Len(p.rows) |->
               <<p.rows[i].end_time, p.rows[i].shift_date,
                 p.rows[i].actual_end_time, p.rows[i].worked_hours>>]]

\* next_id = len(rows) counts the header row and the data rows
add_shift_gsheets(p, user_id, s_date, s_time, e_time, created_at) ==
    LET next_id == Len(p.rows) + 1
    IN  update_report_worksheet(
          [p EXCEPT !.rows = Append(@, [id |-> next_id, user_id |-> user_id,
                                        shift_date |-> s_date,
                                        start_time |-> s_time,
                                        end_time |-> e_time,
                                        actual_end_time |-> Nil,
                                        worked_hours |-> Nil,
                                        created_at |-> created_at])])

\* the first data row whose first cell is shift_id, 0 when there is none
PyRowOf(rows, shift_id) ==
    IF \E i \in 1..Len(rows) : rows[i].id = shift_id
    THEN CHOOSE i \in 1..Len(rows) :
           /\ rows[i].id = shift_id
           /\ \A j \in 1..(i - 1) : rows[j].id # shift_id
    ELSE 0

delete_shift_gsheets(p, shift_id) ==
    LET i == PyRowOf(p.rows, shift_id)
    IN  IF i = 0 THEN p
        ELSE update_report_worksheet(
               [p EXCEPT !.rows = [j \in 1..(Len(@) - 1) |->
                                     IF j < i THEN @[j] ELSE @[j + 1]]])

\* get_user_shifts_for_date_sqlite + get_user_shifts_for_date_gsheets
PyExisting(p, user_id, shift_date) ==
    { <<s.start_time, s.end_time>> :
        s \in { x \in p.db : x.user_id = user_id /\ x.shift_date = shift_date } }
    \cup
    { <<p.rows[i].start_time, p.rows[i].end_time>> :
        i \in { k \in 1..Len(p.rows) : /\ p.rows[k].user_id = user_id
                                       /\ p.rows[k].shift_date = shift_date } }

PyFrame == UNCHANGED <<variant, today, shifts, sheet, failLog, photo, conf, text,
                       cron, session, lastReply>>

\* the two stores after add_shift_sqlite and add_shift_gsheets
PyStored(p, user_id, s_time, e_time) ==
    LET p1 == add_shift_sqlite(p, user_id, today, s_time, e_time)
    IN  [add_shift_gsheets(p1, user_id, today, s_time, e_time, p.seq + 1)
           EXCEPT !.reply = "added"]

\* the photo handler: the call of add_shift_sqlite passes ten arguments
handle_photo_with_caption(user_id, s_time, e_time) ==
    LET p    == Py
        args == <<user_id, "full_name", "photo", today, s_time, e_time, Nil, Nil,
                  "zone", "witag">>
    IN  /\ isValidTime(s_time) /\ isValidTime(e_time)
        /\ p.seq < MaxIds
        /\ probe' =
             IF ~StrLess(s_time, e_time)
             THEN [p EXCEPT !.reply = "start_not_before_end"]
             ELSE IF \E x \in PyExisting(p, user_id, today) :
                       Overlaps(s_time, e_time, x)
             THEN [p EXCEPT !.reply = "overlap"]
             ELSE IF Len(args) # add_shift_sqlite_params
             THEN [p EXCEPT !.reply = "internal_error"]
             ELSE PyStored(p, user_id, s_time, e_time)
        /\ PyFrame

\* add_shift_sqlite and add_shift_gsheets applied with the arguments of their
\* signatures to a shift that passed the checks of the photo handler
add_shift(user_id, s_time, e_time) ==
    LET p == Py
    IN  /\ p.seq < MaxIds
        /\ StrLess(s_time, e_time)
        /\ ~\E x \in PyExisting(p, user_id, today) : Overlaps(s_time, e_time, x)
        /\ probe' = PyStored(p, user_id, s_time, e_time)
        /\ PyFrame

\* /delete_shift [ID]
delete_shift(user_id, shift_id) ==
    LET p  == Py
        p1 == delete_shift_sqlite(p, shift_id)
        p2 == delete_shift_gsheets(p1, shift_id)
        sqlite_success  == p1.db # p.db
        gsheets_success == PyRowOf(p.rows, shift_id) # 0
    IN  /\ probe' =
             IF user_id \notin ADMIN_IDS
             THEN [p EXCEPT !.reply = "admins_only"]
             ELSE [p2 EXCEPT !.reply = IF sqlite_success \/ gsheets_success
                                       THEN "deleted" ELSE "not_found"]
        /\ PyFrame

\* /edit_<ID>: the id is put on the Message object of this update
edit_shift_with_state(user_id, shift_id) ==
    /\ probe' = [Py EXCEPT !.reply = IF user_id \notin ADMIN_IDS
                                     THEN "admins_only" ELSE "enter_time"]
    /\ PyFrame

\* the cells of the row of shift_id that the "Home" branch writes: columns 7
\* and 8 of Sheet1, which hold end_time and actual_end_time
PyHomeCells(rows, shift_id, actual_end_time, worked_hours) ==
    LET i == PyRowOf(rows, shift_id)
    IN  IF i = 0 THEN rows
        ELSE [rows EXCEPT ![i].end_time = actual_end_time,
                          ![i].actual_end_time = worked_hours]

\* the cells the schedule branch writes: columns 6 to 9
PyScheduleCells(rows, shift_id, new_start, new_end) ==
    LET i == PyRowOf(rows, shift_id)
    IN  IF i = 0 THEN rows
        ELSE [rows EXCEPT ![i].start_time = new_start,
                          ![i].end_time = new_end,
                          ![i].actual_end_time = Nil,
                          ![i].worked_hours = Nil]

\* a text message; expected is the attribute expected_shift_id of its
\* Message object, <<>> when the object has none
process_edit_input(user_id, expected, txt) ==
    LET p        == Py
        shift_id == expected[1]
        row      == { s \in p.db : s.id = shift_id }
        home     ==
          [p EXCEPT !.db = { IF s.id = shift_id
                             THEN [s EXCEPT !.actual_end_time = txt.a,
                                            !.worked_hours =
                                              calculateWorkedHours(s.start_time,
                                                                   txt.a)]
                             ELSE s : s \in @ },
                    !.rows = PyHomeCells(@, shift_id, txt.a,
                               calculateWorkedHours(
                                 (CHOOSE s \in row : TRUE).start_time, txt.a)),
                    !.reply = "finished"]
        schedule ==
          [p EXCEPT !.db = { IF s.id = shift_id
                             THEN [s EXCEPT !.start_time = txt.a,
                                            !.end_time = txt.b,
                                            !.actual_end_time = Nil,
                                            !.worked_hours = Nil]
                             ELSE s : s \in @ },
                    !.rows = PyScheduleCells(@, shift_id, txt.a, txt.b),
                    !.reply = "updated"]
    IN  /\ probe' =
             IF user_id \notin ADMIN_IDS \/ expected = Nil
             THEN [p EXCEPT !.reply = "none"]
             ELSE IF row = {}
             THEN [p EXCEPT !.reply = "not_found"]
             ELSE IF txt.kind = "home"
             THEN IF isValidTime(txt.a) THEN update_report_worksheet(home)
                  ELSE [p EXCEPT !.reply = "bad_home_time"]
             ELSE IF isValidTime(txt.a) /\ isValidTime(txt.b)
             THEN update_report_worksheet(schedule)
             ELSE [p EXCEPT !.reply = "bad_format"]
        /\ PyFrame

\* creations and deletions
NextIds ==
    \/ \E u \in PyUsers, s \in PyTimes, e \in PyTimes :
         handle_photo_with_caption(u, s, e)
    \/ \E u \in PyUsers, s \in PyTimes, e \in PyTimes : add_shift(u, s, e)
    \/ \E u \in PyUsers, i \in PyShiftIds : delete_shift(u, i)

SpecIds == Init /\ [][NextIds]_vars

\* creations and the edits of an admin
NextEdit ==
    \/ \E u \in PyEdited, s \in PyTimes, e \in PyTimes :
         handle_photo_with_caption(u, s, e)
    \/ \E u \in PyEdited, s \in PyTimes, e \in PyTimes : add_shift(u, s, e)
    \/ \E u \in PyUsers, i \in PyShiftIds : edit_shift_with_state(u, i)
    \/ \E u \in PyUsers, x \in {Nil} \cup { <<i>> : i \in PyShiftIds },
          t \in PyTexts : process_edit_input(u, x, t)

SpecEdit == Init /\ [][NextEdit]_vars

----------------------------------------------------------------------------
(* bot.use: the group lookup in front of every handler *)

\* chat ids that are in no GROUP<n>_ID of the environment
UnknownGroups == {"gx"}
\* the updates that arrive from such a chat
EventKinds == {"photo", "photo_nocaption", "callback"}

\* <<config>>, or <<>> for null; V1 falls back to an object with the bot
\* token only
getGroupConfig(groupId) ==
    IF groupId \in Groups
    THEN <<[groupId |-> groupId, adminUsernames |-> AdminUsernames(groupId)]>>
    ELSE IF variant = "V1" THEN <<[botToken |-> "BOT_TOKEN"]>> ELSE <<>>

\* An update from a chat that is not configured goes through bot.use.  If
\* the lookup is not null, next() runs the handler with a config that has
\* no groupId, adminUsernames or timezone: a photo without caption is
\* answered, a photo with a caption throws in getCurrentDate(undefined),
\* a callback of the admin panel throws in isAdmin(username, undefined).
UnknownGroupEvent(groupId, kind) ==
    /\ groupId \in UnknownGroups
    /\ lastReply' = IF getGroupConfig(groupId) = <<>>
                    THEN Reply("not_configured", Nil)
                    ELSE IF kind = "photo_nocaption"
                    THEN Reply("need_caption", Nil)
                    ELSE Reply("threw", Nil)
    /\ UNCHANGED <<probe, variant, today, shifts, sheet, failLog, photo, conf, text,
                   cron, session>>

\* photos of configured groups, and updates from a chat that is not configured
NextGroup ==
    \/ \E s \in Senders, t \in LifeTimes : PhotoStart("h1", s[1], s[2], t)
    \/ PhotoSteps("h1")
    \/ \E g \in UnknownGroups, k \in EventKinds : UnknownGroupEvent(g, k)

SpecGroup == Init /\ [][NextGroup]_vars

----------------------------------------------------------------------------
(* isAdmin as a function of its two arguments *)

\* the characters of the handles and list entries that are tried
HandleChars == {"@", "a", "A", "b"}
\* ctx.from.username values of 1..MaxHandleLen characters
Handles == UNION { [1..n -> HandleChars] : n \in 1..MaxHandleLen }
\* the entries an adminUsernames array is made of
AdminEntries == { <<"a">>, <<"A">>, <<"a", "b">>, <<"@", "a">> }

InitAdmin ==
    /\ variant \in Variants
    /\ today = Dates[1]
    /\ shifts = <<>>
    /\ sheet = <<HeaderRow>>
    /\ failLog = <<>>
    /\ photo = [h \in Handlers |-> IdlePhoto]
    /\ conf = IdleConf
    /\ text = IdleText
    /\ cron = IdleCron
    /\ session = Nil
    /\ lastReply = Reply("none", Nil)
    /\ probe \in [op : {"isAdmin"}, h : Handles, L : SUBSET AdminEntries, out : {<<>>}]

\* isAdmin(h, L) is called and returns
IsAdminCall ==
    /\ probe.op = "isAdmin"
    /\ probe.out = <<>>
    /\ probe' = [probe EXCEPT !.out = <<isAdmin(probe.h, probe.L)>>]
    /\ UNCHANGED <<variant, today, shifts, sheet, failLog, photo, conf, text, cron,
                   session, lastReply>>

NextAdmin == IsAdminCall

SpecAdmin == InitAdmin /\ [][NextAdmin]_vars

----------------------------------------------------------------------------
(* Properties *)

SameKey(a, b) ==
    a.group_id = b.group_id /\ a.username = b.username /\ a.shift_date = b.shift_date

\* a.start < b.end AND a.end > b.start, minutes of the day compared
Intersect(aStart, aEnd, bStart, bEnd) ==
    aStart[1] * 60 + aStart[2] < bEnd[1] * 60 + bEnd[2]
      /\ aEnd[1] * 60 + aEnd[2] > bStart[1] * 60 + bStart[2]

Terminal(r) == r.status \in {"completed", "canceled"}

\* C1: with the photos handled one at a time (SpecSeq), no two stored shifts
\* of the same (group, submitter, date) have intersecting intervals.
C1_NoOverlapSequential ==
    \A i \in 1..Len(shifts) : \A j \in 1..Len(shifts) :
        (i # j /\ SameKey(shifts[i], shifts[j]))
          => ~Intersect(shifts[i].start_time, shifts[i].end_time,
                        shifts[j].start_time, shifts[j].end_time)

\* two shifts of one submitter and date are stored, and a third was refused
C1_Witness ==
    /\ \E i \in 1..Len(shifts) : \E j \in 1..Len(shifts) :
          i # j /\ SameKey(shifts[i], shifts[j])
    /\ lastReply.kind = "overlap"

\* C2: the overlap check is atomic with the INSERT: a row that a photo
\* handler inserts intersects no row of the same (group, submitter, date)
\* that is in the table when it is inserted, also with two handlers in
\* flight (SpecReg).
C2_CheckAndInsertAtomic ==
    [][ Len(shifts') > Len(shifts) =>
          \A i \in 1..Len(shifts) :
              SameKey(shifts[i], shifts'[Len(shifts')])
                => ~Intersect(shifts'[Len(shifts')].start_time,
                              shifts'[Len(shifts')].end_time,
                              shifts[i].start_time, shifts[i].end_time) ]_vars

\* C3: once the status of a shift is completed or canceled, no step changes it.
C3_StatusOnlyForward ==
    [][ \A id \in 1..Len(shifts) :
          Terminal(shifts[id]) => shifts'[id].status = shifts[id].status ]_vars

\* the UPDATE of the confirm handler / of the text handler runs in this step
ConfUpdateStep == conf.pc = "update" /\ conf'.pc # "update"
TextUpdateStep == text.pc = "update" /\ text'.pc # "update"

\* the shift with this id exists in the group and is completed or canceled
Closed(id, g) ==
    id \in 1..Len(shifts) /\ shifts[id].group_id = g /\ Terminal(shifts[id])

ErrorReplies == {"not_found", "confirm_error", "manual_error"}

\* C4: a confirm or a manual end that reaches its UPDATE for a shift that is
\* already completed or canceled changes no field of the record and ends
\* there with an error reply.
C4_TerminalAttemptRejected ==
    [][ ((ConfUpdateStep /\ Closed(conf.id, conf.g))
           \/ (TextUpdateStep /\ Closed(text.id, text.g)))
          => shifts' = shifts /\ lastReply'.kind \in ErrorReplies ]_vars

\* the UPDATE of the 23:05 job runs in this step
CronUpdateStep == cron.pc = "update" /\ cron'.pc = "mirror"

\* C5: the 23:05 job re-reads the status before it writes: its UPDATE leaves
\* alone every shift that is no longer active when the UPDATE runs.
C5_SchedulerRereadsStatus ==
    [][ CronUpdateStep =>
          \A id \in 1..Len(shifts) :
              shifts[id].status # "active" => shifts'[id] = shifts[id] ]_vars

\* C6: when the confirm button is pressed for an active shift of the group,
\* the UPDATE makes it completed with worked_hours the duration from its
\* start_time to its end_time.
C6_ConfirmCompletes ==
    [][ (ConfUpdateStep /\ conf.id \in 1..Len(shifts)
           /\ shifts[conf.id].group_id = conf.g
           /\ shifts[conf.id].status = "active")
          => /\ shifts'[conf.id].status = "completed"
             /\ shifts'[conf.id].worked_hours =
                  calculateWorkedHours(shifts[conf.id].start_time,
                                       shifts[conf.id].end_time) ]_vars

\* C7: a photo handler that has inserted its row ends with the
\* registration-success reply, whatever the worksheet calls do.
C7_MirrorFailureStillSuccess ==
    [][ \A h \in Handlers :
          (photo[h].pc = "mirror" /\ photo'[h].pc = "idle")
            => lastReply'.kind = "registered" ]_vars

\* a handler ends in its catch block after its INSERT / UPDATE
PhotoFailStep(h) ==
    photo[h].pc = "mirror" /\ photo'[h].pc = "idle" /\ lastReply'.kind = "reg_error"
TextFailStep ==
    text.pc = "mirror" /\ text'.pc = "idle" /\ lastReply'.kind = "manual_error"
ConfFailStep ==
    conf.pc = "mirror" /\ conf'.pc = "idle" /\ lastReply'.kind = "confirm_error"
\* the 23:05 job leaves its loop after the UPDATE of a shift
CronFailStep ==
    cron.pc = "mirror" /\ cron'.pc = "idle"

\* C8: a failing worksheet call rolls nothing back: the step in which a
\* handler or the 23:05 job ends in its catch block after its INSERT or
\* UPDATE leaves the table as it is, the inserted row is in it, and the row
\* a manual end, a confirm or the job closed is still in it with a status
\* that is not active.
C8_NoRollback ==
    [][ /\ \A h \in Handlers :
             PhotoFailStep(h)
               => /\ shifts' = shifts
                  /\ photo[h].id \in 1..Len(shifts')
                  /\ shifts'[photo[h].id].username = photo[h].u
                  /\ shifts'[photo[h].id].start_time = photo[h].start
                  /\ shifts'[photo[h].id].end_time = photo[h].end
        /\ TextFailStep
             => /\ shifts' = shifts
                /\ shifts'[text.id].status # "active"
                /\ shifts'[text.id].actual_end_time # Nil
        /\ ConfFailStep
             => /\ shifts' = shifts
                /\ shifts'[conf.id].status # "active"
        /\ CronFailStep
             => /\ shifts' = shifts
                /\ shifts'[cron.list[cron.i].id].status # "active" ]_vars

\* a photo handler has ended in its catch block before any worksheet write
\* and its shift is in the table
C8_Witness ==
    /\ lastReply.kind = "reg_error"
    /\ sheet = <<HeaderRow>>
    /\ Len(shifts) = 1
    /\ shifts[1].status = "active"

\* the 23:05 job returns in this step
CronReturnStep == cron.pc # "idle" /\ cron'.pc = "idle"

\* C9: when the 23:05 job returns, none of the shifts it selected is still
\* active, also when a worksheet call failed on the way.
C9_NoActiveAfterAutoComplete ==
    [][ CronReturnStep =>
          \A k \in 1..Len(cron.list) :
              shifts'[cron.list[k].id].status # "active" ]_vars

\* the loop over existingShifts of handler h has been decided in this step
PhotoDecideStep(h) == photo[h].pc = "check" /\ photo'[h].pc # "check"

\* the rows of the table the interval of handler h intersects
Conflicts(h) ==
    { i \in 1..Len(shifts) :
        /\ shifts[i].group_id = photo[h].g
        /\ shifts[i].username = photo[h].u
        /\ shifts[i].shift_date = photo[h].date
        /\ Intersect(photo[h].start, photo[h].end,
                     shifts[i].start_time, shifts[i].end_time) }

\* C10: a registration whose interval intersects an existing shift of the
\* same (group, submitter, date) is refused with a reply that names a
\* conflicting interval, and the table and the worksheets stay as they are.
C10_OverlapRejected ==
    [][ \A h \in Handlers :
          (PhotoDecideStep(h) /\ Conflicts(h) # {})
            => /\ lastReply'.kind = "overlap"
               /\ \E i \in Conflicts(h) :
                     lastReply'.arg = <<shifts[i].start_time, shifts[i].end_time>>
               /\ shifts' = shifts
               /\ sheet' = sheet
               /\ failLog' = failLog ]_vars

\* a registration was refused with the interval 15:00-23:00, the second of
\* the two shifts of that submitter and date
C10_Witness ==
    /\ lastReply.kind = "overlap"
    /\ lastReply.arg = <<T1500, T2300>>
    /\ Len(shifts) = 2
    /\ SameKey(shifts[1], shifts[2])
    /\ <<shifts[2].start_time, shifts[2].end_time>> = <<T1500, T2300>>

\* the rows of the table the interval of handler h intersects that are
\* completed or canceled
ClosedConflicts(h) == { i \in Conflicts(h) : Terminal(shifts[i]) }

\* C11: a registration whose interval intersects a completed or canceled
\* shift of the same (group, submitter, date) is refused like one that
\* intersects an active shift: overlap reply naming a conflicting interval,
\* nothing inserted, worksheet untouched.
C11_ClosedShiftKeepsSlot ==
    [][ \A h \in Handlers :
          (PhotoDecideStep(h) /\ ClosedConflicts(h) # {})
            => /\ lastReply'.kind = "overlap"
               /\ \E i \in Conflicts(h) :
                     lastReply'.arg = <<shifts[i].start_time, shifts[i].end_time>>
               /\ shifts' = shifts
               /\ sheet' = sheet ]_vars

\* V3 (every step that closes a shift also replies): the only shift is
\* closed and the last reply is the refusal of a later registration
C11_Witness ==
    /\ variant = "V3"
    /\ Len(shifts) = 1
    /\ Terminal(shifts[1])
    /\ lastReply.kind = "overlap"
    /\ lastReply.arg = <<shifts[1].start_time, shifts[1].end_time>>
    /\ conf.pc = "idle" /\ photo["h1"].pc = "idle"

\* the rows of the same (group, submitter, date) that end where the
\* interval of handler h starts, or start where it ends
Touching(h) ==
    { i \in 1..Len(shifts) :
        /\ shifts[i].group_id = photo[h].g
        /\ shifts[i].username = photo[h].u
        /\ shifts[i].shift_date = photo[h].date
        /\ (shifts[i].end_time = photo[h].start
               \/ shifts[i].start_time = photo[h].end) }

\* C12: touching intervals do not overlap: a registration that touches an
\* existing shift of the same (group, submitter, date) and intersects none
\* is accepted, its row is inserted.
C12_TouchingAccepted ==
    [][ \A h \in Handlers :
          (PhotoDecideStep(h) /\ Touching(h) # {} /\ Conflicts(h) = {})
            => /\ Len(shifts') = Len(shifts) + 1
               /\ shifts'[Len(shifts')].start_time = photo[h].start
               /\ shifts'[Len(shifts')].end_time = photo[h].end
               /\ shifts'[Len(shifts')].username = photo[h].u
               /\ lastReply' \in {lastReply, Reply("registered", Nil)} ]_vars

\* two shifts of one submitter and date, the second starting where the
\* first ends
C12_Witness ==
    /\ Len(shifts) = 2
    /\ SameKey(shifts[1], shifts[2])
    /\ shifts[1].end_time = shifts[2].start_time
    /\ StrLess(shifts[1].start_time, shifts[1].end_time)
    /\ StrLess(shifts[2].start_time, shifts[2].end_time)

\* C13: every stored shift has start_time < end_time.
C13_StartBeforeEnd ==
    \A i \in 1..Len(shifts) : StrLess(shifts[i].start_time, shifts[i].end_time)

\* C14: the row an accepted registration inserts has status active,
\* actual_end_time and worked_hours NULL and an id no other row has; the
\* rows that were there stay as they are.
C14_NewShiftFields ==
    [][ Len(shifts') > Len(shifts) =>
          /\ Len(shifts') = Len(shifts) + 1
          /\ SubSeq(shifts', 1, Len(shifts)) = shifts
          /\ shifts'[Len(shifts')].status = "active"
          /\ shifts'[Len(shifts')].actual_end_time = Nil
          /\ shifts'[Len(shifts')].worked_hours = Nil
          /\ \A i \in 1..Len(shifts) : shifts[i].id # shifts'[Len(shifts')].id ]_vars

\* two registrations were accepted
C14_Witness ==
    /\ Len(shifts) = 2
    /\ shifts[1].id # shifts[2].id
    /\ \A i \in 1..2 : /\ shifts[i].status = "active"
                        /\ shifts[i].actual_end_time = Nil
                        /\ shifts[i].worked_hours = Nil
    /\ lastReply.kind = "registered"

\* C15: a shift whose status is active has actual_end_time and
\* worked_hours NULL.
C15_ActiveHasNullEnd ==
    \A i \in 1..Len(shifts) :
        shifts[i].status = "active"
          => shifts[i].actual_end_time = Nil /\ shifts[i].worked_hours = Nil

\* a confirm for an id of another group has run through and found
\* nothing; the shift is still active
C15_Witness ==
    /\ lastReply.kind = "not_found"
    /\ conf.pc = "idle" /\ text.pc = "idle" /\ cron.pc = "idle"
    /\ Len(shifts) = 1
    /\ shifts[1].status = "active"
    /\ shifts[1].worked_hours = Nil

\* C16: the UPDATE of a manual end with the actual end time T on an active
\* shift makes it completed with actual_end_time T and worked_hours the
\* duration from start_time to T (07:00 and 13:45 give 6h 45m) and changes
\* nothing else.
C16_ManualEndFields ==
    [][ (TextUpdateStep /\ text.id \in 1..Len(shifts)
           /\ shifts[text.id].group_id = text.g
           /\ shifts[text.id].status = "active")
          => /\ shifts' = [shifts EXCEPT ![text.id] =
                   [@ EXCEPT !.status = "completed",
                             !.actual_end_time = text.actualEndTime,
                             !.worked_hours =
                                 calculateWorkedHours(shifts[text.id].start_time,
                                                      text.actualEndTime)]]
             /\ (shifts[text.id].start_time = T0700 /\ text.actualEndTime = T1345)
                   => shifts'[text.id].worked_hours = <<6, 45>> ]_vars

\* the 07:00-15:00 shift was ended by hand at 13:45
C16_Witness ==
    /\ Len(shifts) = 1
    /\ shifts[1].start_time = T0700
    /\ shifts[1].status = "completed"
    /\ shifts[1].actual_end_time = T1345
    /\ shifts[1].worked_hours = <<6, 45>>
    /\ lastReply.kind = "manual_ok"

\* the SELECT of the 23:05 job runs in this step
CronSelectStep == cron.pc = "select" /\ cron'.pc # "select"

\* C17: the 23:05 job selects every active shift of its group and date, and
\* its UPDATE of an active shift makes it completed with worked_hours the
\* duration from start_time to end_time (07:00-15:00 gives 8h 0m), leaving
\* actual_end_time NULL and everything else as it is.
C17_AutoCompleteFields ==
    [][ /\ CronSelectStep
             => \A id \in 1..Len(shifts) :
                   (shifts[id].status = "active" /\ shifts[id].group_id = cron.g
                      /\ shifts[id].shift_date = cron.date)
                     => /\ cron'.pc = "update"
                        /\ \E k \in 1..Len(cron'.list) : cron'.list[k].id = id
        /\ (CronUpdateStep /\ shifts[cron.list[cron.i].id].status = "active")
             => /\ shifts' = [shifts EXCEPT ![cron.list[cron.i].id] =
                      [@ EXCEPT !.status = "completed",
                                !.worked_hours =
                                    calculateWorkedHours(
                                        shifts[cron.list[cron.i].id].start_time,
                                        shifts[cron.list[cron.i].id].end_time)]]
                /\ shifts'[cron.list[cron.i].id].actual_end_time = Nil
                /\ (shifts[cron.list[cron.i].id].start_time = T0700
                      /\ shifts[cron.list[cron.i].id].end_time = T1500)
                     => shifts'[cron.list[cron.i].id].worked_hours = <<8, 0>> ]_vars

\* the job has run and the 07:00-15:00 shift is completed with 8h 0m
C17_Witness ==
    /\ cron.pc = "idle"
    /\ Len(shifts) >= 1
    /\ shifts[1].status = "completed"
    /\ shifts[1].worked_hours = <<8, 0>>
    /\ shifts[1].actual_end_time = Nil

\* C18: where confirm cancels (V2, V3), its UPDATE of an active shift sets
\* the status to canceled and leaves worked_hours NULL.
C18_CancelFields ==
    [][ (variant # "V1" /\ ConfUpdateStep /\ conf.id \in 1..Len(shifts)
           /\ shifts[conf.id].group_id = conf.g
           /\ shifts[conf.id].status = "active")
          => shifts' = [shifts EXCEPT ![conf.id] = [@ EXCEPT !.status = "canceled"]]
               /\ shifts'[conf.id].worked_hours = Nil ]_vars

\* a shift was canceled by confirm
C18_Witness ==
    /\ Len(shifts) = 1
    /\ shifts[1].status = "canceled"
    /\ shifts[1].worked_hours = Nil
    /\ shifts[1].actual_end_time = Nil
    /\ lastReply.kind = "confirm_ok"

\* the handles that are not in the admin list of group g
NonAdmins(g) == { a \in Actors : a \notin AdminUsernames(g) }

\* a privileged handler is invoked by actor a in group g in this step; the
\* text handler counts when the update carries the pending record
PrivilegedCall(a, g) ==
    \/ \E id \in ShiftIds : ConfStart(a, g, id)
    \/ \E id \in ShiftIds : SelectManualEnd(a, g, id)
    \/ \E t \in LifeTexts : TextStart(a, g, t, TRUE)
    \/ \E k \in ViewKinds : AdminView(a, g, k)

ToLower(c) == IF c = "A" THEN "a" ELSE IF c = "B" THEN "b" ELSE c
Lower(str) == [i \in 1..Len(str) |-> ToLower(str[i])]
\* a handle without its leading @
StripLeadingAt(h) == IF Len(h) > 0 /\ h[1] = "@" THEN Tail(h) ELSE h

\* C20: isAdmin(h, L) is true exactly when h without a leading @ equals
\* some entry of L, letter case ignored.
C20_IsAdminCaseNormalized ==
    (probe.op = "isAdmin" /\ probe.out # <<>>)
      => probe.out[1] =
           (Lower(StripLeadingAt(probe.h)) \in { Lower(e) : e \in probe.L })

\* C21: an update from a chat that is not configured is turned away by
\* bot.use with the not-configured reply: no handler runs (none replies,
\* none throws) and the table and worksheets stay as they are.
C21_UnknownGroupRejected ==
    [][ \A g \in UnknownGroups : \A k \in EventKinds :
          UnknownGroupEvent(g, k)
            => /\ lastReply'.kind = "not_configured"
               /\ UNCHANGED <<shifts, sheet, failLog, session>> ]_vars

\* the rows of groups other than g are the same after the step
OtherGroupsUntouched(g) ==
    /\ Len(shifts') >= Len(shifts)
    /\ \A id \in 1..Len(shifts) :
          shifts[id].group_id # g => shifts'[id] = shifts[id]

\* C22: an event handled for group G neither mutates nor uses for its
\* decision a shift of another group: the INSERT and the UPDATEs of
\* registration, confirm, manual end and the 23:05 job leave the rows of
\* other groups alone, a registration is refused only on a conflict within
\* its own group, the SELECTs of confirm and manual end treat an id of
\* another group as not there, and the job lists shifts of its group only.
C22_GroupScoped ==
    [][ /\ \A h \in Handlers :
             PhotoDecideStep(h)
               => /\ OtherGroupsUntouched(photo[h].g)
                  /\ Len(shifts') > Len(shifts)
                        => shifts'[Len(shifts')].group_id = photo[h].g
                  /\ Len(shifts') = Len(shifts) => Conflicts(h) # {}
        /\ (conf.pc = "get" /\ conf'.pc # "get")
             => (~(conf.id \in 1..Len(shifts) /\ shifts[conf.id].group_id = conf.g)
                   => (conf'.pc = "idle" \/ conf'.username = <<>>))
        /\ ConfUpdateStep => OtherGroupsUntouched(conf.g)
        /\ (text.pc = "get" /\ text'.pc # "get")
             => (~(text.id \in 1..Len(shifts) /\ shifts[text.id].group_id = text.g)
                   => (text'.pc = "idle" /\ lastReply'.kind = "not_found"))
        /\ TextUpdateStep => OtherGroupsUntouched(text.g)
        /\ (CronSelectStep /\ cron'.pc = "update")
             => \A k \in 1..Len(cron'.list) :
                   shifts[cron'.list[k].id].group_id = cron.g
        /\ CronUpdateStep => OtherGroupsUntouched(cron.g) ]_vars

\* each group has a shift; the one of the second group was closed and a
\* later operation with an id that is not of its group found nothing,
\* while the shift of the first group is still active
C22_Witness ==
    /\ Len(shifts) = 2
    /\ shifts[1].group_id # shifts[2].group_id
    /\ shifts[1].status = "active"
    /\ shifts[2].status # "active"
    /\ lastReply.kind = "not_found"
    /\ conf.pc = "idle" /\ text.pc = "idle" /\ cron.pc = "idle"

\* how often x stands in seq
Count(seq, x) == Cardinality({ i \in 1..Len(seq) : seq[i] = x })

\* C23: after any number of firings of the 18:16 job, with or without
\* registrations around them, no row of the worksheet lists the day-off mark
\* of a date more than once.
C23_DayOffMarkedOnce ==
    \A r \in 1..Len(sheet) : \A k \in 1..Len(Dates) :
        Count(sheet[r].dates, Marker(Dates[k])) <= 1

\* a step of the 18:16 job
DayOffStep == cron' # cron /\ (cron.pc = "dayoff" \/ cron'.pc = "dayoff")

\* C24: a step of the 18:16 job leaves the table shifts as it is: no row is
\* added and no field of a row changes.
C24_DayOffWritesMirrorOnly == [][DayOffStep => shifts' = shifts]_vars

\* the job has marked a day off while the table holds a shift
C24_Witness ==
    /\ shifts # <<>>
    /\ cron.pc = "idle"
    /\ \E r \in 1..Len(sheet) : Contains(sheet[r].dates, Marker(today))

\* C25: the worksheet never holds two rows with the key of one employee: a
\* registration or a completion of an employee who has a row writes that row
\* and no other, and a registration of one who has none appends one row.
C25_OneRowPerKey ==
    \A i, j \in 1..Len(sheet) :
        (i # j /\ sheet[i].key[1] = "@") => sheet[i].key # sheet[j].key

\* the text handler returns after its UPDATE and no worksheet call was rejected:
\* it sends its success reply, or it reads the row that findIndex did not find
TextEndStep ==
    /\ text.pc = "mirror"
    /\ text'.pc = "idle"
    /\ (TextThrows \/ lastReply'.kind = "manual_ok")

NotifyFailStep ==
    /\ probe' # probe
    /\ probe'.op = "sendMessage"
    /\ ~probe'.ok

\* C27: when the notification of the employee is rejected in the confirm or
\* the manual-end handler, the table is left as the UPDATE made it, the shift
\* is completed and the admin gets the success reply.
C27_NotifyFailureIsolated ==
    [][NotifyFailStep =>
         /\ shifts' = shifts
         /\ shifts'[probe'.id].status = "completed"
         /\ lastReply'.kind \in {"confirm_ok", "manual_ok"}]_vars

\* confirm has completed a shift, the notification was rejected and the
\* success reply was sent
C27_Witness ==
    /\ probe.op = "sendMessage"
    /\ ~probe.ok
    /\ lastReply.kind = "confirm_ok"
    /\ shifts[probe.id].status = "completed"
    /\ conf.pc = "idle"

\* the confirm or the text handler returns and the table has no shift with
\* the id of the request in the group of the request
UnknownIdEnd ==
    \/ conf.pc # "idle" /\ conf'.pc = "idle" /\ dbGetShift(conf.id, conf.g) = <<>>
    \/ text.pc # "idle" /\ text'.pc = "idle" /\ dbGetShift(text.id, text.g) = <<>>

\* C28: a confirm or a manual end for an id that no shift of the group has
\* ends with the "not found" reply and leaves the table and the worksheet as
\* they are.
C28_UnknownIdNotFound ==
    [][UnknownIdEnd =>
         /\ lastReply'.kind = "not_found"
         /\ shifts' = shifts
         /\ sheet' = sheet]_vars

\* the UPDATE of the confirm handler runs on a shift that is active
ConfUpdateOnActive ==
    /\ variant \in {"V1", "V2"}
    /\ conf.pc = "update"
    /\ conf'.pc # "update"
    /\ dbGetShift(conf.id, conf.g) # <<>>
    /\ shifts[conf.id].status = "active"

\* the confirm handler returns with its success reply for a shift of the group
ConfDoneStep ==
    /\ variant \in {"V1", "V2"}
    /\ conf.pc \in {"update", "mirror"}
    /\ conf'.pc = "idle"
    /\ lastReply'.kind = "confirm_ok"
    /\ dbGetShift(conf.id, conf.g) # <<>>

\* C29: confirm does to an active shift what the 23:05 job does to it: its
\* UPDATE leaves the row the job's UPDATE would leave, and when it returns
\* the worksheet is what the job's write would make it and the employee is
\* notified exactly if the job would notify.
C29_ConfirmAsAutoComplete ==
    [][/\ ConfUpdateOnActive =>
             shifts' = UpdateStatusWorked(shifts, conf.id, conf.g, "completed",
                          calculateWorkedHours(shifts[conf.id].start_time,
                                               shifts[conf.id].end_time))
       /\ ConfDoneStep =>
             /\ sheet' = CompletionSheet(sheet, shifts[conf.id].username, "Rabotal", Nil,
                            calculateWorkedHours(shifts[conf.id].start_time,
                                                 shifts[conf.id].end_time))
             /\ ConfNotifies(sheet, shifts[conf.id].username)
                  = CronNotifies(sheet, shifts[conf.id].username)]_vars

\* C30: a call of updateReportSheet that follows a call with the same group
\* and period, with the clock and the table unchanged in between, leaves the
\* Report worksheet as the first call left it.
C30_ReportIdempotent ==
    [][(probe' # probe /\ probe'.op = "updateReportSheet" /\ probe'.calls > 1)
         => probe'.report = probe.report]_vars

\* two calls in a row for a group that has a user
C30_Witness ==
    /\ probe.op = "updateReportSheet"
    /\ probe.calls = 2
    /\ Len(ReportValues(probe.g, probe.weekFilter)) >= 2

\* the rows a rebuild from the table gives in the layout of part_001: one row
\* for each user, with the days of the user's shifts and their number
DerivedReport ==
    LET All(r)  == TRUE
        users   == Distinct(SelectSeq2(shifts, All, 1), {})
        Days(u) == { DayOfMonth(shifts[i].shift_date) :
                       i \in { j \in 1..Len(shifts) : shifts[j].username = u } }
    IN  <<ReportHead>>
        \o [i \in 1..Len(users) |->
              [label |-> users[i], days |-> Days(users[i]),
               summary |-> Cardinality(Days(users[i]))]]

\* C31: whenever the photo handler has written the Report worksheet and no
\* handler is running, the worksheet is what the table alone determines: the
\* header and one row for each user with the days of that user's shifts.
C31_ReportDerivedFromTable ==
    (probe.op = "report" /\ photo["h1"].pc = "idle" /\ lastReply.kind = "registered")
        => probe.report = DerivedReport

\* minutes after midnight of a time
MinuteOfDay(t) == t[1] * 60 + t[2]

\* C32: for valid times the result "Xh Ym" of calculateWorkedHours stands for
\* end - start minutes when end >= start and for end - start + 1440 minutes
\* when end < start; X is not negative, Y is within 0..59, and the result is
\* "0h 0m" when start = end.
C32_WorkedHours ==
    probe.op = "calculateWorkedHours" =>
        LET d        == MinuteOfDay(probe.end) - MinuteOfDay(probe.start)
            expected == IF d >= 0 THEN d ELSE d + 1440
        IN  /\ probe.result[1] * 60 + probe.result[2] = expected
            /\ probe.result[1] >= 0
            /\ probe.result[2] \in 0..59
            /\ probe.start = probe.end => probe.result = <<0, 0>>

\* a call with the end before the start: 23:00 to 07:00 is "8h 0m"
C32_Witness ==
    /\ probe.op = "calculateWorkedHours"
    /\ probe.start = <<23, 0>>
    /\ probe.end = <<7, 0>>
    /\ probe.result = <<8, 0>>

\* the caption begins with name, times and zone (and tag) and goes on after them
Trailing(caption) ==
    /\ Len(caption) >= 3
    /\ caption[2].kind = "times"
    /\ caption[3].kind \in {"zone", "zone_more"}
    /\ ~CaptionMatch_Anchored(caption)

\* C33: a photo whose caption goes on after the zone or the tag gets the
\* format error, and the handler stops there: no query, no shift.
C33_WholeCaptionMatched ==
    [][(probe'.op = "caption" /\ Trailing(probe'.caption)
          /\ (probe' # probe \/ photo' # photo \/ lastReply' # lastReply))
         => (lastReply'.kind = "bad_format" /\ photo' = photo)]_vars

\* a text update of an admin of the group arrives while the select handler's
\* object for that group is pending
PendingTextStep ==
    /\ probe' # probe
    /\ probe'.op = "text"
    /\ probe'.pending # Nil
    /\ probe'.pending[1].g = probe'.g
    /\ isAdmin(probe'.actor, AdminUsernames(probe'.g))

\* C34: a manual-end reply of an admin whose text is not a valid time gets
\* the format error, and the table, the worksheet and shift_fail stay as
\* they are.
C34_BadTimeRejected ==
    [][(PendingTextStep /\ ~isValidTime(probe'.txt)) =>
         /\ lastReply' = Reply("bad_time", Nil)
         /\ text' = text
         /\ shifts' = shifts /\ sheet' = sheet /\ failLog' = failLog]_vars

\* C37: after an admin has selected shift S in the manual-end menu, the
\* admin's reply with a valid time starts the manual end of S: the handler
\* goes on to its SELECT with the id of S.
C37_PendingReachesText ==
    [][(PendingTextStep /\ isValidTime(probe'.txt)) =>
         /\ text'.pc = "get"
         /\ text'.id = probe'.pending[1].shiftId
         /\ text'.actualEndTime = probe'.txt]_vars

\* the photo handler of V1 returns with its success reply
RegisteredStep ==
    /\ variant = "V1"
    /\ photo["h1"].pc = "mirror"
    /\ photo'["h1"].pc = "idle"
    /\ lastReply'.kind = "registered"

\* C35: when a registration has succeeded and the worksheet calls went
\* through, the Timesheet has a row of the employee and that row shows the
\* start and the end of the shift just registered.
C35_MirrorShowsNewShift ==
    [][RegisteredStep =>
         LET idx == FindIndex(sheet', photo["h1"].u) IN
         /\ idx >= 0
         /\ sheet'[idx + 1].start = photo["h1"].start
         /\ sheet'[idx + 1].end = photo["h1"].end]_vars

\* the confirm handler returns with its success reply after its worksheet part
ConfMirrorStep ==
    /\ conf.pc = "mirror"
    /\ conf'.pc = "idle"
    /\ lastReply'.kind = "confirm_ok"

\* C36: when confirm has completed a shift whose employee has a row in the
\* worksheet, that row carries the new status (and in V1 the worked hours),
\* and no other row, the admin's included, is written or added.
C36_SubmitterRowUpdated ==
    [][ConfMirrorStep =>
         LET idx == FindIndex(sheet, shifts[conf.id].username) IN
         idx >= 0 =>
           /\ sheet'[idx + 1].status = "Rabotal"
           /\ variant = "V1" => sheet'[idx + 1].worked = conf.wh
           /\ \A r \in 1..Len(sheet') :
                 r # idx + 1 => (r <= Len(sheet) /\ sheet'[r] = sheet[r])]_vars

ScheduleEditStep ==
    /\ probe.op = "py" /\ probe'.op = "py"
    /\ probe'.reply = "updated"
    /\ probe'.db # probe.db

====
